---- MODULE Spec2Model ----
(***************************************************************************)
(* A model of the ez-steg engines:                                         *)
(*   StegoProduction  (src/ez_steg/ez_steg_core.py)   password-protected   *)
(*   StegoLite        (src/src/stego_lite.py)         length-prefix only   *)
(*   StegoEmoji       (src/ez_steg/ez_steg_emoji.py)  variation selectors  *)
(*                                                                         *)
(* Bytes are integers 0..255, byte strings are sequences of bytes, an      *)
(* image is a record [width, height, samples] whose samples are the        *)
(* flattened uint8 array (row-major, R,G,B interleaved), a text is a       *)
(* sequence of code points.                                                *)
(*                                                                         *)
(* PBKDF2 and AES-GCM are library primitives.  They are modelled as ideal  *)
(* primitives: a derived key is the pair (password, salt) itself, so two   *)
(* keys are equal exactly when both inputs are; AES-GCM decryption accepts *)
(* exactly the ciphertexts that AES-GCM encryption has produced under the  *)
(* same key and nonce (the set `sealed` records them).                     *)
(***************************************************************************)
EXTENDS Integers, Sequences, FiniteSets, TLC

VARIABLES
    engine,     \* StegoProduction.password of the engine in use, or NoEngine
    carrier,    \* the image file given as input_path to embed
    stego,      \* the image file at output_path, or NoFile
    sealed,     \* every (key, nonce, ciphertext||tag) AES-GCM has produced
    origin,     \* how the file `stego` came to be: what was embedded, flipped, forged
    last,       \* the outcome of the last call
    liteCarrier,\* StegoLite: the image file given as input_path to embed
    liteStego,  \* StegoLite: the image file at output_path, or NoFile
    liteOrigin, \* StegoLite: how `liteStego` came to be
    liteLast,   \* StegoLite: the outcome of the last call
    base_emoji, \* StegoEmoji.base_emoji of the engine in use, or NoEngine
    text,       \* the text handed to StegoEmoji.extract, or NoFile
    emojiOrigin,\* StegoEmoji: the payload `text` was made from
    emojiLast,  \* StegoEmoji: the outcome of the last call
    mode,       \* StegoInteractive.mode
    selfStego,  \* StegoInteractive.stego: the engine the interface holds
    outputFile, \* the file at the output path given to extract_data
    uiLast,     \* StegoInteractive: how the last operation ended
    created,    \* the file create_carrier_image saved, and what it was made for
    temp_files, \* StegoInteractive.temp_files: the tracked paths, in order
    tempOnDisk, \* the files that exist in the directory temp_stego
    temp_dir,   \* whether the directory temp_stego exists
    cleaned,    \* what the last cleanup_temp_files found and could not delete
    running,    \* where run() is: "idle" (not called), "menu", "returned"
    codecData,  \* BitCodec: the byte string handed to _bits_from_bytes
    codecBits,  \* BitCodec: the bit array at hand
    codecOut,   \* BitCodec: the bytes _bytes_from_bits returned
    codecLast   \* BitCodec: the last call made

prodVars  == <<engine, carrier, stego, sealed, origin, last>>
liteVars  == <<liteCarrier, liteStego, liteOrigin, liteLast>>
emojiVars == <<base_emoji, text, emojiOrigin, emojiLast>>
tempVars  == <<temp_files, tempOnDisk, temp_dir, cleaned, running>>
uiVars    == <<mode, selfStego, outputFile, uiLast, created, tempVars>>
codecVars == <<codecData, codecBits, codecOut, codecLast>>
vars      == <<prodVars, liteVars, emojiVars, uiVars, codecVars>>

\* no engine constructed: the empty password, which no engine can hold
NoEngine == <<>>
\* no file at a path: an image of no samples
NoFile   == [width |-> 0, height |-> 0, samples |-> <<>>, format |-> "none"]
\* the `data` of a call that returned nothing (its `returned` is FALSE)
NoData   == <<>>

(***************************************************************************)
(* Program constants                                                       *)
(***************************************************************************)
HEADER_SIZE      == 9
FORMAT_VERSION   == 1
SALT_SIZE        == 16
NONCE_SIZE       == 12
TAG_SIZE         == 16
MIN_PASSWORD_LEN == 12
MAX_SALT_LEN     == 64
MAX_NONCE_LEN    == 32
LENGTH_BYTES     == 4
SAMPLES_PER_BYTE == 24

(***************************************************************************)
(* Bounds of the model                                                     *)
(***************************************************************************)
MaxCap == 2          \* the largest capacity (bytes) of a modelled carrier
MaxEmbeds == 2       \* the embeddings followed in a run of repeated embeds
MaxDataSize == 5     \* the largest data size a carrier image is created for
MaxTemp == 2         \* the temporary files tracked in a session

(***************************************************************************)
(* Helpers: Python slices, big-endian integers                             *)
(***************************************************************************)
Min(a, b) == IF a <= b THEN a ELSE b

\* s[a:b] of Python for 0 <= a, 0 <= b: clamped to the sequence, never an error
PySlice(s, a, b) ==
    LET lo == Min(a, Len(s))
        hi == Min(b, Len(s))
    IN  IF hi <= lo THEN <<>> ELSE SubSeq(s, lo + 1, hi)

\* s[a:] of Python
PySliceFrom(s, a) == PySlice(s, a, Len(s))

Pow2(k) == 2 ^ k

\* the n-byte big-endian encoding of v (struct.pack '>B', '>H', '>I')
BigEndian(v, n) == [i \in 1..n |-> (v \div (256 ^ (n - i))) % 256]

\* the unsigned integer a big-endian byte string encodes (struct.unpack)
RECURSIVE FromBigEndian(_)
FromBigEndian(bs) ==
    IF Len(bs) = 0 THEN 0
    ELSE 256 * FromBigEndian(SubSeq(bs, 1, Len(bs) - 1)) + bs[Len(bs)]

\* a 4-byte unsigned integer.  TLC's integers end at 2^31 - 1: a value
\* beyond is read as 2^31 - 1, which is above every capacity modelled and is
\* only ever compared with one.
FromBigEndian32(bs) ==
    IF bs[1] >= 128 THEN 2147483647 ELSE FromBigEndian(bs)

RECURSIVE SeqSum(_)
SeqSum(s) == IF Len(s) = 0 THEN 0 ELSE s[1] + SeqSum(Tail(s))

(***************************************************************************)
(* BitCodec: _bits_from_bytes / _bytes_from_bits (numpy unpackbits and     *)
(* packbits, most significant bit first)                                   *)
(***************************************************************************)
\* np.unpackbits with bitorder='little'
bits_from_bytes_LsbFirst(data) ==
    [i \in 1..(8 * Len(data)) |->
        (data[((i - 1) \div 8) + 1] \div Pow2((i - 1) % 8)) % 2]

bits_from_bytes(data) ==
    [i \in 1..(8 * Len(data)) |->
        (data[((i - 1) \div 8) + 1] \div Pow2(7 - ((i - 1) % 8))) % 2]

\* np.packbits with bitorder='little'
bytes_from_bits_LsbFirst(bits) ==
    LET padding == (8 - (Len(bits) % 8)) % 8
        padded  == IF padding # 0 THEN bits \o [i \in 1..padding |-> 0] ELSE bits
    IN  [j \in 1..(Len(padded) \div 8) |->
            128 * padded[8 * j]     + 64 * padded[8 * j - 1]
          +  32 * padded[8 * j - 2] + 16 * padded[8 * j - 3]
          +   8 * padded[8 * j - 4] +  4 * padded[8 * j - 5]
          +   2 * padded[8 * j - 6] +      padded[8 * j - 7]]

bytes_from_bits(bits) ==
    LET padding == (8 - (Len(bits) % 8)) % 8
        padded  == IF padding # 0 THEN bits \o [i \in 1..padding |-> 0] ELSE bits
    IN  [j \in 1..(Len(padded) \div 8) |->
            128 * padded[8 * j - 7] + 64 * padded[8 * j - 6]
          +  32 * padded[8 * j - 5] + 16 * padded[8 * j - 4]
          +   8 * padded[8 * j - 3] +  4 * padded[8 * j - 2]
          +   2 * padded[8 * j - 1] +      padded[8 * j]]

\* the codec used on its own: a byte string is unpacked to bits, the bit array
\* may be cut short (a slice of it is passed on), and bits are packed
CodecIdle ==
    /\ codecData = <<>> /\ codecBits = <<>> /\ codecOut = <<>>
    /\ codecLast = "idle"

\* bits = _bits_from_bytes(data)
CodecUnpack ==
    /\ codecLast = "none"
    /\ codecBits' = bits_from_bytes(codecData)
    /\ codecLast' = "bits_from_bytes"
    /\ UNCHANGED <<codecData, codecOut>>
    /\ UNCHANGED <<prodVars, liteVars, emojiVars, uiVars>>

\* bits = bits[:n]
CodecCut(n) ==
    /\ codecLast = "bits_from_bytes"
    /\ n < Len(codecBits)
    /\ codecBits' = PySlice(codecBits, 0, n)
    /\ codecLast' = "cut"
    /\ UNCHANGED <<codecData, codecOut>>
    /\ UNCHANGED <<prodVars, liteVars, emojiVars, uiVars>>

\* _bytes_from_bits(bits)
CodecPack ==
    /\ codecLast \in {"bits_from_bytes", "cut"}
    /\ codecOut' = bytes_from_bits(codecBits)
    /\ codecLast' = IF codecLast = "cut" THEN "bytes_from_cut_bits" ELSE "bytes_from_bits"
    /\ UNCHANGED <<codecData, codecBits>>
    /\ UNCHANGED <<prodVars, liteVars, emojiVars, uiVars>>

(***************************************************************************)
(* Pixel-LSB carrier: _embed_bits / _extract_bits                          *)
(***************************************************************************)
ImageSize(image) == Len(image.samples)

\* numpy refuses `flat_image[:len(bits)] |= bits` when the slice is shorter
\* than bits (the operands cannot be broadcast together)
BitsFit(image, bits) == Len(bits) <= ImageSize(image)

\* _embed_bits with the mask 0xFC in place of 0xFE
embed_bits_ClearsTwoBits(image, bits) ==
    [image EXCEPT !.samples =
        [i \in 1..Len(image.samples) |->
            IF i <= Len(bits)
            THEN (image.samples[i] - (image.samples[i] % 4)) + bits[i]
            ELSE image.samples[i]]]

embed_bits(image, bits) ==
    [image EXCEPT !.samples =
        [i \in 1..Len(image.samples) |->
            IF i <= Len(bits)
            THEN (image.samples[i] - (image.samples[i] % 2)) + bits[i]
            ELSE image.samples[i]]]

extract_bits(image, num_bits) ==
    [i \in 1..Min(num_bits, ImageSize(image)) |-> image.samples[i] % 2]

\* The array the caller handed to _embed_bits, as it is when the call has
\* returned: the two writes go to `modified = image.copy()`, never to `image`.
\* Without the copy they would go to the caller's array:
embed_bits_input_InPlace(image, bits) ==
    [image EXCEPT !.samples =
        [i \in 1..Len(image.samples) |->
            IF i <= Len(bits)
            THEN (image.samples[i] - (image.samples[i] % 2)) + bits[i]
            ELSE image.samples[i]]]

embed_bits_input(image, bits) == image

\* The array handed to _extract_bits, after the call: `image.ravel()[:n] & 1`
\* builds a new array and assigns to nothing
extract_bits_input(image, num_bits) == image

(***************************************************************************)
(* StegoProduction                                                         *)
(***************************************************************************)
\* __init__: the password check
PasswordAccepted_OffByOne(password) == ~(Len(password) < MIN_PASSWORD_LEN - 1)

PasswordAccepted(password) == ~(Len(password) < MIN_PASSWORD_LEN)

\* _derive_key: PBKDF2-HMAC-SHA256 as an ideal function of (password, salt)
\* a key derived from a salt the engine kept, not from the one handed in
derive_key_StoredSalt(password, salt) ==
    [password |-> password, salt |-> [i \in 1..SALT_SIZE |-> 0]]

derive_key(password, salt) == [password |-> password, salt |-> salt]

ProdOverhead == HEADER_SIZE + SALT_SIZE + NONCE_SIZE + TAG_SIZE

\* _get_capacity without min_overhead subtracted
ProdCapacity_NoOverhead(image) == ImageSize(image) \div SAMPLES_PER_BYTE

ProdCapacity(image) == (ImageSize(image) \div SAMPLES_PER_BYTE) - ProdOverhead

\* struct.pack('>BIHH', version, data_len, salt_len, nonce_len)
PackHeader_SwappedLengths(version, data_len, salt_len, nonce_len) ==
    BigEndian(version, 1) \o BigEndian(data_len, 4)
        \o BigEndian(nonce_len, 2) \o BigEndian(salt_len, 2)

PackHeader(version, data_len, salt_len, nonce_len) ==
    BigEndian(version, 1) \o BigEndian(data_len, 4)
        \o BigEndian(salt_len, 2) \o BigEndian(nonce_len, 2)

\* struct.unpack('>BIHH', header) of a 9-byte header
UnpackHeader(header) ==
    [version   |-> FromBigEndian(SubSeq(header, 1, 1)),
     data_len  |-> FromBigEndian32(SubSeq(header, 2, 5)),
     salt_len  |-> FromBigEndian(SubSeq(header, 6, 7)),
     nonce_len |-> FromBigEndian(SubSeq(header, 8, 9))]

\* AES-GCM: the bytes of ciphertext||tag.  The model fixes some bytes for
\* them (a byte-wise shift of the plaintext, then TAG_SIZE tag bytes); which
\* ciphertexts verify is decided by `sealed`, never by these bytes.
KeyMix(key, nonce) == (SeqSum(key.password) + SeqSum(key.salt) + SeqSum(nonce)) % 256

AesGcmEncrypt(key, nonce, data) ==
    LET body == [i \in 1..Len(data) |-> (data[i] + KeyMix(key, nonce) + i) % 256]
        tag  == [j \in 1..TAG_SIZE |-> (KeyMix(key, nonce) + SeqSum(body) + 31 * j) % 256]
    IN  body \o tag

AesGcmPlain(key, nonce, ct) ==
    [i \in 1..(Len(ct) - TAG_SIZE) |-> (ct[i] + 512 - KeyMix(key, nonce) - i) % 256]

Sealing(key, nonce, ct) == [key |-> key, nonce |-> nonce, ct |-> ct]

\* a decryption that does not verify the tag
AesGcmDecrypt_Unverified(key, nonce, ct, table) ==
    IF Len(nonce) < 8 \/ Len(nonce) > 128
    THEN [status |-> "ValueError", plaintext |-> <<>>]
    ELSE IF Len(ct) < TAG_SIZE
    THEN [status |-> "InvalidTag", plaintext |-> <<>>]
    ELSE [status |-> "ok", plaintext |-> AesGcmPlain(key, nonce, ct)]

\* AESGCM.decrypt: ValueError for a nonce outside 8..128 bytes, InvalidTag for
\* anything that encrypt did not produce under this key and nonce
AesGcmDecrypt(key, nonce, ct, table) ==
    IF Len(nonce) < 8 \/ Len(nonce) > 128
    THEN [status |-> "ValueError", plaintext |-> <<>>]
    ELSE IF Len(ct) < TAG_SIZE \/ Sealing(key, nonce, ct) \notin table
    THEN [status |-> "InvalidTag", plaintext |-> <<>>]
    ELSE [status |-> "ok", plaintext |-> AesGcmPlain(key, nonce, ct)]

\* the capacity check of embed (ez_steg_core.py line 119, stego_lite.py line 90)
ExceedsCapacity_OffByOne(data, capacity) == Len(data) >= capacity

\* the check with a negative capacity taken for none at all
ExceedsCapacity_NonNegative(data, capacity) ==
    Len(data) > (IF capacity < 0 THEN 0 ELSE capacity)

ExceedsCapacity(data, capacity) == Len(data) > capacity

\* Outcome records.  `rand` counts the random bytes drawn, `kdf` the key
\* derivations, `opens` the AES-GCM decryptions attempted, `reads` the number
\* of LSBs asked of the carrier, `path` the stages the call went through.
\* `arg` is the data (embed) or password (init) argument of the call;
\* `returned` tells whether the call returned a value (`data`) or raised.
Outcome(op, arg, status, data, rand, kdf, opens, reads, path) ==
    [op |-> op, arg |-> arg, status |-> status, returned |-> (status = "ok"),
     data |-> data,
     rand |-> rand, kdf |-> kdf,
     opens |-> opens, reads |-> reads, path |-> path]

\* embed when the payload exceeds the capacity: ValidationError is raised
\* before os.urandom, _derive_key and encrypt are reached (lines 119-122).
\* Were the check placed after the salt and the nonce are drawn:
CapacityRejected_AfterRandom(data, image) ==
    [out |-> Outcome("embed", data, "ValidationError", NoData,
                     SALT_SIZE + NONCE_SIZE, 0, 0, 0,
                     <<"SaltNonceGenerated", "CapacityChecked">>),
     image |-> NoFile, sealing |-> {}, input |-> image]

CapacityRejected(data, image) ==
    [out |-> Outcome("embed", data, "ValidationError", NoData, 0, 0, 0, 0,
                     <<"CapacityChecked">>),
     image |-> NoFile, sealing |-> {}, input |-> image]

\* StegoProduction.embed on the samples of the carrier file, with the salt and
\* the nonce that os.urandom returns.  The result: the outcome, the image
\* written to output_path (NoFile when none is), the AES-GCM output, the
\* array loaded from input_path as the call leaves it.
ProdEmbed(password, data, image, salt, nonce) ==
    IF ExceedsCapacity(data, ProdCapacity(image))
    THEN CapacityRejected(data, image)
    ELSE LET key        == derive_key(password, salt)
             ciphertext == AesGcmEncrypt(key, nonce, data)
             header     == PackHeader(FORMAT_VERSION, Len(data), Len(salt), Len(nonce))
             all_data   == header \o salt \o nonce \o ciphertext
             bits       == bits_from_bytes(all_data)
             path       == <<"CapacityChecked", "SaltNonceGenerated", "KeyDerived",
                             "Sealed", "HeaderBuilt", "Serialized">>
         IN  IF ~BitsFit(image, bits)
             THEN [out |-> Outcome("embed", data, "SecurityError", NoData,
                                   Len(salt) + Len(nonce), 1, 0, 0, path),
                   image |-> NoFile, sealing |-> {Sealing(key, nonce, ciphertext)},
                   input |-> image]
             ELSE [out |-> Outcome("embed", data, "ok", NoData,
                                   Len(salt) + Len(nonce), 1, 0, 0, path),
                   image |-> [embed_bits(image, bits) EXCEPT !.format = "PNG"],
                   sealing |-> {Sealing(key, nonce, ciphertext)},
                   input |-> embed_bits_input(image, bits)]

\* the version check of extract (line 194).  Without it:
VersionSupported_Any(h) == TRUE

VersionSupported(h) == ~(h.version # FORMAT_VERSION)

\* the header check of extract (line 198)
LengthsValid_NoUpperBound(h, image) ==
    /\ 0 < h.salt_len
    /\ 0 < h.nonce_len
    /\ 0 < h.data_len  /\ h.data_len  <= ProdCapacity(image)

LengthsValid(h, image) ==
    /\ 0 < h.salt_len  /\ h.salt_len  <= MAX_SALT_LEN
    /\ 0 < h.nonce_len /\ h.nonce_len <= MAX_NONCE_LEN
    /\ 0 < h.data_len  /\ h.data_len  <= ProdCapacity(image)

\* StegoProduction.extract on the samples of the file at input_path
ProdExtract(password, image, table) ==
    LET header_bits == extract_bits(image, HEADER_SIZE * 8)
        header      == bytes_from_bits(header_bits)
        hreads      == HEADER_SIZE * 8
    IN  IF Len(header) # HEADER_SIZE
        THEN \* struct.error
             Outcome("extract", <<>>, "SecurityError", NoData, 0, 0, 0, hreads, <<"HeaderRead">>)
        ELSE
        LET h == UnpackHeader(header) IN
        IF ~VersionSupported(h)
        THEN Outcome("extract", <<>>, "ValidationError", NoData, 0, 0, 0, hreads,
                     <<"HeaderRead", "VersionChecked">>)
        ELSE IF ~LengthsValid(h, image)
        THEN Outcome("extract", <<>>, "ValidationError", NoData, 0, 0, 0, hreads,
                     <<"HeaderRead", "VersionChecked", "LengthsValidated">>)
        ELSE
        LET total_size == HEADER_SIZE + h.salt_len + h.nonce_len + h.data_len + TAG_SIZE
            all_bits   == extract_bits(image, total_size * 8)
            all_data   == bytes_from_bits(all_bits)
            salt       == PySlice(all_data, HEADER_SIZE, HEADER_SIZE + h.salt_len)
            npos       == HEADER_SIZE + h.salt_len
            nonce      == PySlice(all_data, npos, npos + h.nonce_len)
            ciphertext == PySliceFrom(all_data, npos + h.nonce_len)
            key        == derive_key(password, salt)
            opened     == AesGcmDecrypt(key, nonce, ciphertext, table)
            path       == <<"HeaderRead", "VersionChecked", "LengthsValidated",
                            "BodyRead", "KeyDerived", "Opened">>
        IN  IF opened.status = "ok" /\ Len(opened.plaintext) = h.data_len
            THEN Outcome("extract", <<>>, "ok", opened.plaintext, 0, 1, 1,
                         total_size * 8, path)
            ELSE \* InvalidTag, a length mismatch, or any other exception
                 Outcome("extract", <<>>, "SecurityError", NoData, 0, 1, 1,
                         total_size * 8, path)

(***************************************************************************)
(* The inputs of the protected engine                                      *)
(***************************************************************************)
\* passwords, as sequences of code points: 11, 12 and 13 characters
Passwords == {[i \in 1..(MIN_PASSWORD_LEN - 1) |-> 97],
              [i \in 1..MIN_PASSWORD_LEN |-> 98],
              [i \in 1..(MIN_PASSWORD_LEN + 1) |-> 99]}

\* what os.urandom may return
Salts  == {[i \in 1..SALT_SIZE |-> 0], [i \in 1..SALT_SIZE |-> (i * 37) % 256]}
Nonces == {[i \in 1..NONCE_SIZE |-> 255], [i \in 1..NONCE_SIZE |-> (i * 11) % 256]}

\* 167 = 10100111: its bits read backwards are another byte
PayloadBytes == {0, 167}

RECURSIVE SeqsOfLen(_, _)
SeqsOfLen(S, n) ==
    IF n = 0 THEN {<<>>}
    ELSE {Append(s, b) : s \in SeqsOfLen(S, n - 1), b \in S}

\* payloads of 0 .. n bytes
PayloadsUpTo(n) == UNION {SeqsOfLen(PayloadBytes, k) : k \in 0..n}

\* an RGB image of the given size with a fixed pattern of samples
Image(width, height, seed) ==
    [width |-> width, height |-> height,
     samples |-> [i \in 1..(width * height * 3) |-> (i * 37 + seed) % 256],
     format |-> "PNG"]

\* an RGB image whose samples are all 0: its LSBs spell zero bytes
BlankImage(width, height) ==
    [width |-> width, height |-> height,
     samples |-> [i \in 1..(width * height * 3) |-> 0],
     format |-> "PNG"]

\* the same samples as PIL decodes them from a JPEG file
JpegImage(width, height, seed) == [Image(width, height, seed) EXCEPT !.format = "JPEG"]

\* carriers of 8 rows whose capacity is -1 .. MaxCap, one of 7 x 61 pixels
\* (1281 samples, not a multiple of 24) and one of a single pixel
ProdCarriers ==
    {Image(ProdOverhead + d, 8, 0) : d \in (0 - 1)..MaxCap}
        \cup {Image(7, 61, 0), Image(1, 1, 0)}

NoOrigin == [kind |-> "none"]
\* the origin of the files of an engine the run does not use
Idle     == [kind |-> "idle"]
NoCall   == Outcome("none", <<>>, "ok", NoData, 0, 0, 0, 0, <<>>)


(***************************************************************************)
(* The protected engine as a state machine                                 *)
(***************************************************************************)
\* StegoProduction(password)
Construct(password) ==
    /\ carrier # NoFile
    /\ IF PasswordAccepted(password)
       THEN /\ engine' = password
            /\ last' = Outcome("init", password, "ok", NoData, 0, 0, 0, 0, <<>>)
       ELSE /\ engine' = engine
            /\ last' = Outcome("init", password, "ValidationError", NoData, 0, 0, 0, 0, <<>>)
    /\ UNCHANGED <<carrier, stego, sealed, origin>>
    /\ UNCHANGED <<liteVars, emojiVars, uiVars, codecVars>>

\* engine.embed(data, carrier, output): one output file is followed per run
Embed(data, salt, nonce) ==
    /\ engine # NoEngine
    /\ carrier # NoFile
    /\ stego = NoFile
    /\ LET r == ProdEmbed(engine, data, carrier, salt, nonce) IN
        /\ last' = r.out
        /\ stego' = r.image
        /\ sealed' = sealed \cup r.sealing
        /\ origin' = IF r.out.status = "ok"
                     THEN [kind |-> "embed", data |-> data, password |-> engine,
                           salt |-> salt, nonce |-> nonce, flipped |-> 0]
                     ELSE origin
        /\ carrier' = r.input
    /\ UNCHANGED engine
    /\ UNCHANGED <<liteVars, emojiVars, uiVars, codecVars>>

\* the number of samples that carry the frame of an embedded payload
FrameBits(data) == 8 * (ProdOverhead + Len(data))

\* engine.embed(data, carrier, output) once more, on the same engine: the
\* output file is written anew when the call succeeds and left as it is
\* when it raises
EmbedAgain(data, salt, nonce) ==
    /\ engine # NoEngine
    /\ carrier # NoFile
    /\ stego # NoFile
    /\ origin.kind = "embed"
    /\ Cardinality(sealed) < MaxEmbeds
    /\ LET r == ProdEmbed(engine, data, carrier, salt, nonce) IN
        /\ last' = r.out
        /\ stego' = IF r.out.status = "ok" THEN r.image ELSE stego
        /\ sealed' = sealed \cup r.sealing
        /\ origin' = IF r.out.status = "ok"
                     THEN [kind |-> "embed", data |-> data, password |-> engine,
                           salt |-> salt, nonce |-> nonce, flipped |-> 0]
                     ELSE origin
        /\ carrier' = r.input
    /\ UNCHANGED engine
    /\ UNCHANGED <<liteVars, emojiVars, uiVars, codecVars>>

FlipLsb(image, i) ==
    [image EXCEPT !.samples[i] = IF @ % 2 = 0 THEN @ + 1 ELSE @ - 1]

\* somebody flips the least significant bit of one frame-carrying sample of
\* the output file, between embed and the extraction
Tamper(i) ==
    /\ stego # NoFile
    /\ last.op # "extract"
    /\ origin.kind = "embed"
    /\ origin.flipped = 0
    /\ i \in 1..FrameBits(origin.data)
    /\ stego' = FlipLsb(stego, i)
    /\ origin' = [origin EXCEPT !.flipped = i]
    /\ UNCHANGED <<engine, carrier, sealed, last>>
    /\ UNCHANGED <<liteVars, emojiVars, uiVars, codecVars>>

\* the headers of files that were not written by embed: every combination of
\* boundary lengths under the supported version, and two unsupported versions
ForgedDataLens  == {0, 1, MaxCap + 1, 2147483647}
ForgedSaltLens  == {0, 1, SALT_SIZE, MAX_SALT_LEN, MAX_SALT_LEN + 1}
ForgedNonceLens == {0, 1, NONCE_SIZE, MAX_NONCE_LEN, MAX_NONCE_LEN + 1, 200}

ForgedHeaders ==
    {[version |-> FORMAT_VERSION, data_len |-> d, salt_len |-> s, nonce_len |-> n] :
        d \in ForgedDataLens, s \in ForgedSaltLens, n \in ForgedNonceLens}
    \cup
    {[version |-> v, data_len |-> 1, salt_len |-> s, nonce_len |-> NONCE_SIZE] :
        v \in {0, FORMAT_VERSION + 1}, s \in {0, SALT_SIZE}}

\* a file whose first 72 LSBs are a header somebody else wrote, there before
\* the engine is first used
Forge(h) ==
    /\ carrier # NoFile
    /\ stego = NoFile
    /\ last = NoCall
    /\ HEADER_SIZE * 8 <= ImageSize(carrier)
    /\ stego' = embed_bits(carrier,
                    bits_from_bytes(PackHeader(h.version, h.data_len,
                                               h.salt_len, h.nonce_len)))
    /\ origin' = [kind |-> "forged", header |-> h]
    /\ UNCHANGED <<engine, carrier, sealed, last>>
    /\ UNCHANGED <<liteVars, emojiVars, uiVars, codecVars>>

\* a file that was never written by embed: the carrier as it is, there before
\* the engine is first used
TakeCarrier ==
    /\ carrier # NoFile
    /\ stego = NoFile
    /\ last = NoCall
    /\ stego' = carrier
    /\ origin' = [kind |-> "foreign"]
    /\ UNCHANGED <<engine, carrier, sealed, last>>
    /\ UNCHANGED <<liteVars, emojiVars, uiVars, codecVars>>

\* engine.get_capacity(carrier): the capacity in bytes is returned as `data`
\* (the human-readable size that comes with it is not modelled)
GetCapacity ==
    /\ engine # NoEngine
    /\ carrier # NoFile
    /\ last' = Outcome("get_capacity", <<>>, "ok", <<ProdCapacity(carrier)>>,
                       0, 0, 0, 0, <<>>)
    /\ UNCHANGED <<engine, carrier, stego, sealed, origin>>
    /\ UNCHANGED <<liteVars, emojiVars, uiVars, codecVars>>

\* engine.extract(output)
Extract ==
    /\ engine # NoEngine
    /\ stego # NoFile
    /\ LET out == ProdExtract(engine, stego, sealed) IN
        /\ last' = out
        /\ stego' = extract_bits_input(stego, out.reads)
    /\ UNCHANGED <<engine, carrier, sealed, origin>>
    /\ UNCHANGED <<liteVars, emojiVars, uiVars, codecVars>>

(***************************************************************************)
(* StegoLite                                                               *)
(***************************************************************************)
\* _get_capacity without the length prefix subtracted
LiteCapacity_NoPrefix(image) == ImageSize(image) \div SAMPLES_PER_BYTE

LiteCapacity(image) == (ImageSize(image) \div SAMPLES_PER_BYTE) - LENGTH_BYTES

\* StegoLite.embed: the outcome and the image written to output_path
LiteEmbed(data, image) ==
    IF ExceedsCapacity(data, LiteCapacity(image))
    THEN [out |-> Outcome("embed", data, "ValueError", NoData, 0, 0, 0, 0, <<>>),
          image |-> NoFile, input |-> image]
    ELSE LET length_prefix == BigEndian(Len(data), LENGTH_BYTES)
             length_bits   == bits_from_bytes(length_prefix)
             data_bits     == bits_from_bytes(data)
             all_bits      == length_bits \o data_bits
         IN  IF ~BitsFit(image, all_bits)
             THEN [out |-> Outcome("embed", data, "ValueError", NoData, 0, 0, 0, 0, <<>>),
                   image |-> NoFile, input |-> image]
             ELSE [out |-> Outcome("embed", data, "ok", NoData, 0, 0, 0, 0, <<>>),
                   image |-> [embed_bits(image, all_bits) EXCEPT !.format = "PNG"],
                   input |-> embed_bits_input(image, all_bits)]

\* the number of LSBs extract reads for a payload of data_length bytes (line 147)
LiteBitsToRead_NoPrefix(data_length) == data_length * 8

LiteBitsToRead(data_length) == data_length * 8 + LENGTH_BYTES * 8

\* StegoLite.extract
LiteExtract(image) ==
    LET length_bits  == extract_bits(image, LENGTH_BYTES * 8)
        length_bytes == bytes_from_bits(length_bits)
        lreads       == LENGTH_BYTES * 8
    IN  IF Len(length_bytes) # LENGTH_BYTES
        THEN Outcome("extract", <<>>, "struct.error", NoData, 0, 0, 0, lreads, <<>>)
        ELSE
        LET data_length == FromBigEndian32(length_bytes)
            capacity    == LiteCapacity(image)
        IN  IF data_length > capacity
            THEN Outcome("extract", <<>>, "ValueError", NoData, 0, 0, 0, lreads, <<>>)
            ELSE
            LET nbits     == LiteBitsToRead(data_length)
                data_bits == PySliceFrom(extract_bits(image, nbits), LENGTH_BYTES * 8)
            IN  Outcome("extract", <<>>, "ok", bytes_from_bits(data_bits),
                        0, 0, 0, nbits, <<>>)

\* carriers of 8 rows whose capacity is -1 .. MaxCap, one of 5 x 7 pixels (105
\* samples, not a multiple of 24), one of a single pixel, a JPEG file, and a
\* blank one of capacity -1 whose LSBs declare the length 0
LiteCarriers ==
    {Image(LENGTH_BYTES + d, 8, seed) : d \in (0 - 1)..MaxCap, seed \in {0, 1}}
        \cup {Image(5, 7, 0), Image(1, 1, 0)}
        \cup {JpegImage(LENGTH_BYTES + MaxCap, 8, 0)}
        \cup {BlankImage(LENGTH_BYTES - 1, 8)}

\* engine.embed(data, carrier, output)
LiteEmbedCall(data) ==
    /\ liteCarrier # NoFile
    /\ liteStego = NoFile
    /\ LET r == LiteEmbed(data, liteCarrier) IN
        /\ liteLast' = r.out
        /\ liteStego' = r.image
        /\ liteOrigin' = IF r.out.status = "ok"
                         THEN [kind |-> "embed", data |-> data, flipped |-> 0]
                         ELSE liteOrigin
        /\ liteCarrier' = r.input
    /\ UNCHANGED <<prodVars, emojiVars, uiVars, codecVars>>

\* somebody flips the least significant bit of one sample of the output file
LiteTamper(i) ==
    /\ liteStego # NoFile
    /\ liteLast.op # "extract"
    /\ liteOrigin.kind = "embed"
    /\ liteOrigin.flipped = 0
    /\ i \in 1..ImageSize(liteStego)
    /\ liteStego' = FlipLsb(liteStego, i)
    /\ liteOrigin' = [liteOrigin EXCEPT !.flipped = i]
    /\ UNCHANGED <<liteCarrier, liteLast>>
    /\ UNCHANGED <<prodVars, emojiVars, uiVars, codecVars>>

\* a file that was never written by embed: the carrier as it is
LiteTakeCarrier ==
    /\ liteCarrier # NoFile
    /\ liteStego = NoFile
    /\ liteLast = NoCall
    /\ liteStego' = liteCarrier
    /\ liteOrigin' = [kind |-> "foreign"]
    /\ UNCHANGED <<liteCarrier, liteLast>>
    /\ UNCHANGED <<prodVars, emojiVars, uiVars, codecVars>>

\* engine.get_capacity(carrier)
LiteGetCapacity ==
    /\ liteCarrier # NoFile
    /\ liteLast' = Outcome("get_capacity", <<>>, "ok", <<LiteCapacity(liteCarrier)>>,
                           0, 0, 0, 0, <<>>)
    /\ UNCHANGED <<liteCarrier, liteStego, liteOrigin>>
    /\ UNCHANGED <<prodVars, emojiVars, uiVars, codecVars>>

\* engine.extract(output)
LiteExtractCall ==
    /\ liteStego # NoFile
    /\ LET out == LiteExtract(liteStego) IN
        /\ liteLast' = out
        /\ liteStego' = extract_bits_input(liteStego, out.reads)
    /\ UNCHANGED <<liteCarrier, liteOrigin>>
    /\ UNCHANGED <<prodVars, emojiVars, uiVars, codecVars>>

(***************************************************************************)
(* StegoEmoji                                                              *)
(***************************************************************************)
BASE_EMOJI == <<127775>>      \* U+1F31F

\* the constructor called with no base_emoji argument (None); no string
NoneArg == <<0 - 1>>

\* __init__: `base_emoji or self.BASE_EMOJI` (None and "" are both falsy)
AnchorOf(arg) == IF arg = NoneArg \/ arg = <<>> THEN BASE_EMOJI ELSE arg

AnchorAccepted(arg) == ~(Len(AnchorOf(arg)) # 1)

\* _byte_to_variation_selector, for 0 <= byte <= 255
byte_to_variation_selector_OffByOne(byte) ==
    IF byte <= 16 THEN 65024 + byte ELSE 917760 + (byte - 16)

byte_to_variation_selector(byte) ==
    IF byte < 16 THEN 65024 + byte ELSE 917760 + (byte - 16)

\* _variation_selector_to_byte: 0 - 1 stands for the ValueError
IsSelector(code_point) ==
    \/ (65024 <= code_point /\ code_point <= 65039)
    \/ (917760 <= code_point /\ code_point <= 917999)

\* the second range taken one code point too wide
variation_selector_to_byte_WideRange(code_point) ==
    IF 65024 <= code_point /\ code_point <= 65039 THEN code_point - 65024
    ELSE IF 917760 <= code_point /\ code_point <= 918000 THEN (code_point - 917760) + 16
    ELSE 0 - 1

variation_selector_to_byte(code_point) ==
    IF 65024 <= code_point /\ code_point <= 65039 THEN code_point - 65024
    ELSE IF 917760 <= code_point /\ code_point <= 917999 THEN (code_point - 917760) + 16
    ELSE 0 - 1

\* StegoEmoji.embed
EmojiEmbed(anchor, data) ==
    LET length_prefix == BigEndian(Len(data), 4)
        all_data      == length_prefix \o data
    IN  anchor \o [i \in 1..Len(all_data) |-> byte_to_variation_selector(all_data[i])]

\* StegoEmoji.extract: the length check.  Without it:
LengthPrefixValid_Unchecked(data_length, all_data) == TRUE

LengthPrefixValid(data_length, all_data) == ~(data_length > Len(all_data) - 4)

\* StegoEmoji.extract
EmojiExtract(t) ==
    LET selectors  == PySliceFrom(t, 1)
        bytes_list == [i \in 1..Len(selectors) |-> variation_selector_to_byte(selectors[i])]
    IN  IF \E i \in 1..Len(selectors) : bytes_list[i] < 0
        THEN Outcome("extract", <<>>, "ValueError", NoData, 0, 0, 0, 0, <<>>)
        ELSE IF Len(bytes_list) < 4
        THEN Outcome("extract", <<>>, "ValueError", NoData, 0, 0, 0, 0, <<>>)
        ELSE
        LET data_length == FromBigEndian32(PySlice(bytes_list, 0, 4)) IN
        IF ~LengthPrefixValid(data_length, bytes_list)
        THEN Outcome("extract", <<>>, "ValueError", NoData, 0, 0, 0, 0, <<>>)
        ELSE Outcome("extract", <<>>, "ok", PySlice(bytes_list, 4, 4 + data_length),
                     0, 0, 0, 0, <<>>)

\* StegoEmoji.get_size_estimate: the character count (the human-readable
\* size that comes with it is not modelled).  Without the base character:
get_size_estimate_NoAnchor(data_length) == data_length + 4

get_size_estimate(data_length) == data_length + 4 + 1

\* anchors offered to the constructor: no argument, the empty string, one
\* code point (a letter, a variation selector, an emoji), two code points
AnchorArgs == {NoneArg, <<>>, <<65>>, <<65024>>, <<128512>>, <<65, 66>>}

EmojiBytes == {0, 15, 16, 255}

EmojiPayloads == UNION {SeqsOfLen(EmojiBytes, k) : k \in 0..MaxCap}

\* StegoEmoji(base_emoji): the engine is made before the text of the run is
EmojiConstruct(arg) ==
    /\ emojiOrigin = NoOrigin
    /\ IF AnchorAccepted(arg)
       THEN /\ base_emoji' = AnchorOf(arg)
            /\ emojiLast' = Outcome("init", arg, "ok", NoData, 0, 0, 0, 0, <<>>)
       ELSE /\ base_emoji' = base_emoji
            /\ emojiLast' = Outcome("init", arg, "ValueError", NoData, 0, 0, 0, 0, <<>>)
    /\ UNCHANGED <<text, emojiOrigin>>
    /\ UNCHANGED <<prodVars, liteVars, uiVars, codecVars>>

\* engine.embed(data)
EmojiEmbedCall(data) ==
    /\ base_emoji # NoEngine
    /\ emojiOrigin.kind = "none"
    /\ text' = EmojiEmbed(base_emoji, data)
    /\ emojiOrigin' = [kind |-> "embed", data |-> data, anchor |-> base_emoji,
                        corrupted |-> 0]
    /\ emojiLast' = Outcome("embed", data, "ok", NoData, 0, 0, 0, 0, <<>>)
    /\ UNCHANGED base_emoji
    /\ UNCHANGED <<prodVars, liteVars, uiVars, codecVars>>

\* engine.get_size_estimate(n), asked for the payload that was embedded
EmojiSizeEstimate(n) ==
    /\ base_emoji # NoEngine
    /\ emojiOrigin.kind = "embed"
    /\ n = Len(emojiOrigin.data)
    /\ emojiLast' = Outcome("get_size_estimate", <<n>>, "ok", <<get_size_estimate(n)>>,
                            0, 0, 0, 0, <<>>)
    /\ UNCHANGED <<base_emoji, text, emojiOrigin>>
    /\ UNCHANGED <<prodVars, liteVars, uiVars, codecVars>>

\* code points next to the two selector ranges (U+FDFF, U+FE10, U+E00FF,
\* U+E01F0) and a letter
ForeignCodePoints == {65, 65023, 65040, 917759, 918000}

\* the text is damaged on its way to extract: the code point at position k,
\* behind the anchor, becomes one that is no variation selector
EmojiCorrupt(k, cp) ==
    /\ emojiOrigin.kind = "embed"
    /\ emojiOrigin.corrupted = 0
    /\ emojiLast.op # "extract"
    /\ k \in 2..Len(text)
    /\ text' = [text EXCEPT ![k] = cp]
    /\ emojiOrigin' = [emojiOrigin EXCEPT !.corrupted = k]
    /\ UNCHANGED <<base_emoji, emojiLast>>
    /\ UNCHANGED <<prodVars, liteVars, uiVars, codecVars>>

\* the text reaches extract cut short: only its first n code points arrive
EmojiCut(n) ==
    /\ emojiOrigin.kind = "embed"
    /\ emojiOrigin.corrupted = 0
    /\ emojiLast.op # "extract"
    /\ n < Len(text)
    /\ text' = PySlice(text, 0, n)
    /\ emojiOrigin' = [emojiOrigin EXCEPT !.corrupted = 0 - 1]
    /\ UNCHANGED <<base_emoji, emojiLast>>
    /\ UNCHANGED <<prodVars, liteVars, uiVars, codecVars>>

\* the text reaches extract with another declared length: the low byte of
\* the length prefix is the selector of b
EmojiRelength(b) ==
    /\ emojiOrigin.kind = "embed"
    /\ emojiOrigin.corrupted = 0
    /\ emojiLast.op # "extract"
    /\ b # Len(emojiOrigin.data)
    /\ text' = [text EXCEPT ![5] = byte_to_variation_selector(b)]
    /\ emojiOrigin' = [emojiOrigin EXCEPT !.corrupted = 0 - 2]
    /\ UNCHANGED <<base_emoji, emojiLast>>
    /\ UNCHANGED <<prodVars, liteVars, uiVars, codecVars>>

\* engine.extract(text)
EmojiExtractCall ==
    /\ base_emoji # NoEngine
    /\ emojiOrigin.kind = "embed"
    /\ emojiLast' = EmojiExtract(text)
    /\ UNCHANGED <<base_emoji, text, emojiOrigin>>
    /\ UNCHANGED <<prodVars, liteVars, uiVars, codecVars>>

(***************************************************************************)
(* StegoInteractive: switch_mode and extract_data                          *)
(***************************************************************************)
\* self.stego = None
NoStego == [kind |-> "none", password |-> <<>>]

\* no file at the output path
NoOutput == [exists |-> FALSE, content |-> <<>>]

\* the file `open(output_path, 'wb')` leaves: it exists and is empty
EmptyOutput == [exists |-> TRUE, content |-> <<>>]

UiOutcome(op, status, error, m, password) ==
    [op |-> op, status |-> status, error |-> error, mode |-> m, password |-> password]

NoUiCall == UiOutcome("none", "ok", "", "production", <<>>)

\* no carrier image created yet
NoCreated == [image |-> NoFile, data_size |-> 0, margin4 |-> 0, mode |-> "none"]

\* cleanup_temp_files not called yet
NoCleanup == [done |-> FALSE, tracked |-> {}, failed |-> {}]

\* StegoInteractive(): production mode, no engine, nothing tracked, the
\* directory temp_stego made
UiConstructed ==
    /\ mode = "production"
    /\ selfStego = NoStego
    /\ outputFile = NoOutput
    /\ uiLast = NoUiCall
    /\ created = NoCreated
    /\ temp_files = <<>>
    /\ tempOnDisk = {}
    /\ temp_dir = TRUE
    /\ cleaned = NoCleanup
    /\ running = "idle"

\* the paths of a list
Range(files) == {files[i] : i \in 1..Len(files)}

\* the files left in temp_stego by the loop of cleanup_temp_files: a tracked
\* file is gone unless its unlink raised.  With no file deleted:
Unlinked_Nothing(onDisk, tracked, failing) == onDisk

Unlinked(onDisk, tracked, failing) == onDisk \ (tracked \ failing)

\* cleanup_temp_files, `failing` being the tracked files whose unlink raises
Cleanup(failing) ==
    /\ temp_files' = <<>>
    /\ tempOnDisk' = Unlinked(tempOnDisk, Range(temp_files), failing)
    /\ temp_dir' = (temp_dir /\ tempOnDisk' # {})
    /\ cleaned' = [done |-> TRUE, tracked |-> Range(temp_files), failed |-> failing]

\* an exception that leaves an operation: inside run() it ends main_menu, the
\* `finally` cleans up and run() returns; called directly it reaches the caller
RunUnwinds ==
    IF running = "menu"
    THEN /\ \E failing \in SUBSET (Range(temp_files) \cap tempOnDisk) : Cleanup(failing)
         /\ running' = "returned"
    ELSE UNCHANGED tempVars

\* switch_mode, the user answering "1" or "2"
SwitchMode(choice) ==
    /\ mode' = IF choice = "1" THEN "production" ELSE "lite"
    /\ selfStego' = NoStego
    /\ uiLast' = UiOutcome("switch_mode", "ok", "", mode', <<>>)
    /\ running # "returned"
    /\ UNCHANGED <<outputFile, created, tempVars>>
    /\ UNCHANGED <<prodVars, liteVars, emojiVars, codecVars>>

\* the engine extract_data builds (lines 422-426).  Were the mode not
\* looked at:
UiEngine_AlwaysProduction(m, password) == [kind |-> "production", password |-> password]

UiEngine(m, password) ==
    IF m = "production"
    THEN [kind |-> "production", password |-> password]
    ELSE [kind |-> "lite", password |-> <<>>]

\* self.stego.extract(image_path)
UiExtract(e, image, table) ==
    IF e.kind = "production"
    THEN ProdExtract(e.password, image, table)
    ELSE LiteExtract(image)

\* The file at the output path when the `except` of extract_data has printed
\* the error: what the probe of the path left, nothing removes it
FailedOutput(probe) == probe

\* extract_data: the user names the image `stego`, gives a password when the
\* mode is production, names the output path (confirming the overwrite when a
\* file is there) and answers the final question with `proceed`
ExtractData(password, proceed) ==
    /\ stego # NoFile
    /\ stego.format = "PNG"
    /\ running # "returned"
    /\ IF mode = "production" /\ ~PasswordAccepted(password)
       THEN \* StegoProduction(password) raises out of extract_data
            /\ uiLast' = UiOutcome("extract_data", "raised", "ValidationError",
                                   mode, password)
            /\ RunUnwinds
            /\ UNCHANGED <<selfStego, outputFile>>
       ELSE LET e     == UiEngine(mode, password)
                probe == EmptyOutput
                out   == UiExtract(e, stego, sealed)
            IN  /\ selfStego' = e
                /\ UNCHANGED tempVars
                /\ IF ~proceed
                   THEN /\ outputFile' = probe
                        /\ uiLast' = UiOutcome("extract_data", "cancelled", "",
                                               mode, e.password)
                   ELSE IF out.returned
                   THEN /\ outputFile' = [exists |-> TRUE, content |-> out.data]
                        /\ uiLast' = UiOutcome("extract_data", "ok", "",
                                               mode, e.password)
                   ELSE /\ outputFile' = FailedOutput(probe)
                        /\ uiLast' = UiOutcome("extract_data", "error", out.status,
                                               mode, e.password)
    /\ UNCHANGED <<mode, created>>
    /\ UNCHANGED <<prodVars, liteVars, emojiVars, codecVars>>

\* initialize_stego(password), called directly; in production mode an empty
\* password is asked for at the prompt, `password` being what is then used
InitializeStego(password) ==
    /\ running = "idle"
    /\ IF mode = "production" /\ ~PasswordAccepted(password)
       THEN /\ uiLast' = UiOutcome("initialize_stego", "raised", "ValidationError",
                                   mode, password)
            /\ UNCHANGED selfStego
       ELSE /\ selfStego' = UiEngine(mode, password)
            /\ uiLast' = UiOutcome("initialize_stego", "ok", "", mode,
                                   UiEngine(mode, password).password)
    /\ UNCHANGED <<mode, outputFile, created, tempVars>>
    /\ UNCHANGED <<prodVars, liteVars, emojiVars, codecVars>>

\* self.stego.embed(data, image_path, output_path)
UiEmbed(e, data, image, salt, nonce) ==
    IF e.kind = "production"
    THEN ProdEmbed(e.password, data, image, salt, nonce)
    ELSE LET r == LiteEmbed(data, image)
         IN  [out |-> r.out, image |-> r.image, sealing |-> {}, input |-> r.input]

\* embed_data: the user names the carrier and the data (a file holding `data`,
\* or with `folder` a folder whose archive holds it), gives a password when
\* the mode is production and answers the final question with `proceed`.
\* The archive of a folder is tracked, and unlinked before embed_data returns.
EmbedData(password, data, folder, proceed, salt, nonce) ==
    /\ carrier # NoFile
    /\ carrier.format = "PNG"
    /\ running # "returned"
    /\ IF mode = "production" /\ ~PasswordAccepted(password)
       THEN \* StegoProduction(password) raises out of embed_data
            /\ uiLast' = UiOutcome("embed_data", "raised", "ValidationError",
                                   mode, password)
            /\ RunUnwinds
            /\ UNCHANGED <<selfStego, prodVars>>
       ELSE LET e == UiEngine(mode, password)
                r == UiEmbed(e, data, carrier, salt, nonce)
            IN  /\ selfStego' = e
                /\ IF folder
                   THEN /\ Len(temp_files) < MaxTemp
                        /\ temp_files' = Append(temp_files, "archive")
                        /\ tempOnDisk' = tempOnDisk \ {"archive"}
                        /\ UNCHANGED <<temp_dir, cleaned, running>>
                   ELSE UNCHANGED tempVars
                /\ IF folder /\ ~temp_dir
                   THEN \* compress_folder cannot create the archive
                        /\ uiLast' = UiOutcome("embed_data", "error", "compress_folder",
                                               mode, e.password)
                        /\ UNCHANGED prodVars
                   ELSE IF ~proceed
                   THEN /\ uiLast' = UiOutcome("embed_data", "cancelled", "",
                                               mode, e.password)
                        /\ UNCHANGED prodVars
                   ELSE /\ uiLast' = UiOutcome("embed_data",
                                               IF r.out.returned THEN "ok" ELSE "error",
                                               IF r.out.returned THEN "" ELSE r.out.status,
                                               mode, e.password)
                        /\ last' = r.out
                        /\ stego' = IF r.out.returned THEN r.image ELSE stego
                        /\ sealed' = sealed \cup r.sealing
                        /\ origin' = IF ~r.out.returned THEN origin
                                     ELSE IF e.kind = "production"
                                     THEN [kind |-> "embed", data |-> data,
                                           password |-> e.password, salt |-> salt,
                                           nonce |-> nonce, flipped |-> 0]
                                     ELSE [kind |-> "plain", data |-> data]
                        /\ carrier' = r.input
                        /\ UNCHANGED engine
    /\ UNCHANGED <<mode, outputFile, created>>
    /\ UNCHANGED <<liteVars, emojiVars, codecVars>>

\* validate_and_convert_image on an image that is not RGB, called directly:
\* the converted copy is saved in temp_stego and tracked
ConvertImage ==
    /\ running = "idle"
    /\ Len(temp_files) < MaxTemp
    /\ IF temp_dir
       THEN /\ temp_files' = Append(temp_files, "converted")
            /\ tempOnDisk' = tempOnDisk \cup {"converted"}
            /\ uiLast' = UiOutcome("validate_and_convert_image", "ok", "", mode, <<>>)
       ELSE \* rgb_img.save raises, the error is printed, None is returned
            /\ uiLast' = UiOutcome("validate_and_convert_image", "error", "save",
                                   mode, <<>>)
            /\ UNCHANGED <<temp_files, tempOnDisk>>
    /\ UNCHANGED <<temp_dir, cleaned, running>>
    /\ UNCHANGED <<mode, selfStego, outputFile, created>>
    /\ UNCHANGED <<prodVars, liteVars, emojiVars, codecVars>>

\* cleanup_temp_files, called directly
CleanupTempFiles ==
    /\ running = "idle"
    /\ \E failing \in SUBSET (Range(temp_files) \cap tempOnDisk) : Cleanup(failing)
    /\ uiLast' = UiOutcome("cleanup_temp_files", "ok", "", mode, <<>>)
    /\ UNCHANGED running
    /\ UNCHANGED <<mode, selfStego, outputFile, created>>
    /\ UNCHANGED <<prodVars, liteVars, emojiVars, codecVars>>

\* run() is called: main_menu shows its prompt
RunStart ==
    /\ running = "idle"
    /\ running' = "menu"
    /\ uiLast' = UiOutcome("run", "menu", "", mode, <<>>)
    /\ UNCHANGED <<temp_files, tempOnDisk, temp_dir, cleaned>>
    /\ UNCHANGED <<mode, selfStego, outputFile, created>>
    /\ UNCHANGED <<prodVars, liteVars, emojiVars, codecVars>>

\* run() returns from the menu prompt: the user chooses "5" (path "") or
\* presses Ctrl-C (KeyboardInterrupt); the `finally` cleans up
RunExit(path) ==
    /\ running = "menu"
    /\ \E failing \in SUBSET (Range(temp_files) \cap tempOnDisk) : Cleanup(failing)
    /\ running' = "returned"
    /\ uiLast' = UiOutcome("run", "returned", path, mode, <<>>)
    /\ UNCHANGED <<mode, selfStego, outputFile, created>>
    /\ UNCHANGED <<prodVars, liteVars, emojiVars, codecVars>>

\* math.ceil(a / b) for integers a >= 0, b > 0
CeilDiv(a, b) == (a + b - 1) \div b

\* math.ceil(math.sqrt(n))
CeilSqrt(n) == CHOOSE d \in 0..n : d * d >= n /\ (d = 0 \/ (d - 1) * (d - 1) < n)

\* create_carrier_image: the bytes added to the data size (lines 695-706)
CarrierOverhead(m) ==
    IF m = "production" THEN HEADER_SIZE + SALT_SIZE + NONCE_SIZE + 16 + 32 ELSE 0

\* create_carrier_image: the side of the image for a data size and a margin
\* factor of margin4 / 4 (lines 708-715); total_bits = total_bytes * 8 is
\* (data_size + overhead) * margin4 * 2
CarrierDimension(m, data_size, margin4) ==
    LET total_bits    == (data_size + CarrierOverhead(m)) * margin4 * 2
        pixels_needed == CeilDiv(total_bits, 3)
        dimension     == CeilSqrt(pixels_needed)
    IN  CeilDiv(dimension, 8) * 8

\* the password of the engine create_carrier_image builds:
\* "temporary_password_12345"
TemporaryPassword ==
    <<116, 101, 109, 112, 111, 114, 97, 114, 121, 95, 112, 97, 115, 115, 119,
      111, 114, 100, 95, 49, 50, 51, 52, 53>>

\* the capacity the engine of mode m reports for an image (get_capacity)
UiCapacity(m, image) ==
    IF m = "production" THEN ProdCapacity(image) ELSE LiteCapacity(image)

\* create_carrier_image: the size is that of a file or given directly, or
\* with `folder` that of the archive of a folder; the margin factor is
\* margin4 / 4; np.random fills the image (`seed`); the output path is free
CreateCarrierImage(data_size, folder, margin4, seed) ==
    /\ running # "returned"
    /\ IF folder
       THEN \* compress_folder until it returns an archive, which is unlinked
            /\ temp_dir
            /\ Len(temp_files) < MaxTemp
            /\ temp_files' = Append(temp_files, "archive")
            /\ tempOnDisk' = tempOnDisk \ {"archive"}
            /\ UNCHANGED <<temp_dir, cleaned, running>>
       ELSE UNCHANGED tempVars
    /\ selfStego' = IF selfStego = NoStego
                    THEN UiEngine(mode, TemporaryPassword)
                    ELSE selfStego
    /\ LET dimension == CarrierDimension(mode, data_size, margin4) IN
        created' = [image |-> Image(dimension, dimension, seed),
                    data_size |-> data_size, margin4 |-> margin4, mode |-> mode]
    /\ uiLast' = UiOutcome("create_carrier_image", "ok", "", mode, <<>>)
    /\ UNCHANGED <<mode, outputFile>>
    /\ UNCHANGED <<prodVars, liteVars, emojiVars, codecVars>>

(***************************************************************************)
(* The specification: a run uses one of the three engines                  *)
(***************************************************************************)
ProdIdle ==
    /\ engine = NoEngine /\ carrier = NoFile /\ stego = NoFile
    /\ sealed = {} /\ origin = Idle /\ last = NoCall

LiteIdle ==
    /\ liteCarrier = NoFile /\ liteStego = NoFile
    /\ liteOrigin = Idle /\ liteLast = NoCall

EmojiIdle ==
    /\ base_emoji = NoEngine /\ text = <<>>
    /\ emojiOrigin = Idle /\ emojiLast = NoCall

InitProd ==
    /\ engine = NoEngine
    /\ carrier \in ProdCarriers
    /\ stego = NoFile
    /\ sealed = {}
    /\ origin = NoOrigin
    /\ last = NoCall
    /\ LiteIdle
    /\ EmojiIdle

InitLite ==
    /\ liteCarrier \in LiteCarriers
    /\ liteStego = NoFile
    /\ liteOrigin = NoOrigin
    /\ liteLast = NoCall
    /\ ProdIdle
    /\ EmojiIdle

InitEmoji ==
    /\ base_emoji = NoEngine
    /\ text = <<>>
    /\ emojiOrigin = NoOrigin
    /\ emojiLast = NoCall
    /\ ProdIdle
    /\ LiteIdle

Init == (InitProd \/ InitLite \/ InitEmoji) /\ UiConstructed /\ CodecIdle

Next ==
    \/ \E password \in Passwords : Construct(password)
    \/ \E data \in PayloadsUpTo(MaxCap + 1), salt \in Salts, nonce \in Nonces :
          Embed(data, salt, nonce)
    \/ \E h \in ForgedHeaders : Forge(h)
    \/ TakeCarrier
    \/ GetCapacity
    \/ Extract
    \/ \E data \in PayloadsUpTo(MaxCap + 1) : LiteEmbedCall(data)
    \/ \E i \in 1..(8 * (LENGTH_BYTES + MaxCap)) : LiteTamper(i)
    \/ LiteTakeCarrier
    \/ LiteGetCapacity
    \/ LiteExtractCall
    \/ \E arg \in AnchorArgs : EmojiConstruct(arg)
    \/ \E data \in EmojiPayloads : EmojiEmbedCall(data)
    \/ \E k \in 2..(5 + MaxCap), cp \in ForeignCodePoints : EmojiCorrupt(k, cp)
    \/ \E n \in 0..(4 + MaxCap) : EmojiCut(n)
    \/ \E b \in 0..(MaxCap + 1) : EmojiRelength(b)
    \/ \E n \in 0..MaxCap : EmojiSizeEstimate(n)
    \/ EmojiExtractCall

Spec == Init /\ [][Next]_vars

(***************************************************************************)
(* The tamper scenario (tests/test_ez_steg_core.py, test_data_integrity):  *)
(* an engine is constructed, it embeds a payload, one LSB of a             *)
(* frame-carrying sample of the output file is flipped, the engine         *)
(* extracts.                                                               *)
(***************************************************************************)
TamperPayloads == {[i \in 1..n |-> 167] : n \in 0..MaxCap}

InitTamper ==
    /\ engine = NoEngine
    /\ carrier = Image(ProdOverhead + MaxCap, 8, 0)
    /\ stego = NoFile
    /\ sealed = {}
    /\ origin = NoOrigin
    /\ last = NoCall
    /\ LiteIdle
    /\ EmojiIdle
    /\ UiConstructed
    /\ CodecIdle

NextTamper ==
    \/ \E password \in Passwords : stego = NoFile /\ Construct(password)
    \/ \E data \in TamperPayloads, salt \in Salts, nonce \in Nonces :
          Embed(data, salt, nonce)
    \/ \E i \in 1..(8 * (ProdOverhead + MaxCap)) : Tamper(i)
    \/ Extract

SpecTamper == InitTamper /\ [][NextTamper]_vars

(***************************************************************************)
(* Repeated embeds: one engine embeds into the same carrier several times, *)
(* os.urandom returning what it will in each call.                         *)
(***************************************************************************)
FreshPayloads == {<<>>, <<167>>, [i \in 1..(MaxCap + 1) |-> 167]}

InitFresh ==
    /\ engine = NoEngine
    /\ carrier = Image(ProdOverhead + MaxCap, 8, 0)
    /\ stego = NoFile
    /\ sealed = {}
    /\ origin = NoOrigin
    /\ last = NoCall
    /\ LiteIdle
    /\ EmojiIdle
    /\ UiConstructed
    /\ CodecIdle

NextFresh ==
    \/ \E password \in Passwords : engine = NoEngine /\ Construct(password)
    \/ \E data \in FreshPayloads, salt \in Salts, nonce \in Nonces :
          Embed(data, salt, nonce)
    \/ \E data \in FreshPayloads, salt \in Salts, nonce \in Nonces :
          EmbedAgain(data, salt, nonce)
    \/ Extract

SpecFresh == InitFresh /\ [][NextFresh]_vars

(***************************************************************************)
(* The interactive interface: an image is made by an engine, then the user *)
(* of StegoInteractive switches modes and extracts from the image.         *)
(***************************************************************************)
UiPayloads == {<<>>, <<167>>, <<167, 0>>}

InitUi ==
    /\ engine = NoEngine
    /\ carrier = Image(ProdOverhead + MaxCap, 8, 0)
    /\ stego = NoFile
    /\ sealed = {}
    /\ origin = NoOrigin
    /\ last = NoCall
    /\ LiteIdle
    /\ EmojiIdle
    /\ UiConstructed
    /\ CodecIdle

NextUi ==
    \/ \E password \in Passwords : stego = NoFile /\ Construct(password)
    \/ \E data \in UiPayloads, salt \in Salts, nonce \in Nonces :
          Embed(data, salt, nonce)
    \/ \E choice \in {"1", "2"} : SwitchMode(choice)
    \/ \E password \in Passwords, proceed \in BOOLEAN : ExtractData(password, proceed)

SpecUi == InitUi /\ [][NextUi]_vars

(***************************************************************************)
(* Carrier images made by the interactive interface                        *)
(***************************************************************************)
\* margin factors 0.75, 1.0, 1.25, 2.0 in quarters
Margins4 == {3, 4, 5, 8}

NextCarrier ==
    \/ \E choice \in {"1", "2"} : created = NoCreated /\ SwitchMode(choice)
    \/ \E data_size \in 1..MaxDataSize, folder \in BOOLEAN, margin4 \in Margins4,
          seed \in {0, 1} :
          created = NoCreated /\ CreateCarrierImage(data_size, folder, margin4, seed)

SpecCarrier == InitUi /\ [][NextCarrier]_vars

(***************************************************************************)
(* A session of the interactive interface                                  *)
(***************************************************************************)
SessionPasswords == {[i \in 1..(MIN_PASSWORD_LEN - 1) |-> 97],
                     [i \in 1..MIN_PASSWORD_LEN |-> 98]}

NextSession ==
    \/ \E choice \in {"1", "2"} : SwitchMode(choice)
    \/ \E password \in SessionPasswords : InitializeStego(password)
    \/ \E password \in SessionPasswords, proceed \in BOOLEAN :
          EmbedData(password, <<167>>, FALSE, proceed,
                    [i \in 1..SALT_SIZE |-> 0], [i \in 1..NONCE_SIZE |-> 255])
    \/ \E password \in SessionPasswords : ExtractData(password, TRUE)
    \/ created = NoCreated /\ CreateCarrierImage(1, FALSE, 4, 0)

SpecSession == InitUi /\ [][NextSession]_vars

(***************************************************************************)
(* The temporary files of a session                                        *)
(***************************************************************************)
\* files are tracked by validate_and_convert_image and by the archive of a
\* folder in embed_data (cancelled at the final question); run() is left by
\* the menu, by Ctrl-C, or by the ValidationError of a short password
NextCleanup ==
    \/ RunStart
    \/ \E path \in {"", "KeyboardInterrupt"} : RunExit(path)
    \/ \E password \in SessionPasswords :
          EmbedData(password, <<167>>, TRUE, FALSE,
                    [i \in 1..SALT_SIZE |-> 0], [i \in 1..NONCE_SIZE |-> 255])
    \/ ConvertImage
    \/ CleanupTempFiles

SpecCleanup == InitUi /\ [][NextCleanup]_vars

(***************************************************************************)
(* The bit codec on its own                                                *)
(***************************************************************************)
\* byte values with the high bit, the low bit, both, neither, and a mix
CodecByteValues == {0, 1, 128, 167, 255}

InitCodec ==
    /\ codecData \in UNION {SeqsOfLen(CodecByteValues, k) : k \in 0..MaxCap}
    /\ codecBits = <<>>
    /\ codecOut = <<>>
    /\ codecLast = "none"
    /\ ProdIdle
    /\ LiteIdle
    /\ EmojiIdle
    /\ UiConstructed

NextCodec ==
    \/ CodecUnpack
    \/ \E n \in 0..(8 * MaxCap) : CodecCut(n)
    \/ CodecPack

SpecCodec == InitCodec /\ [][NextCodec]_vars

(***************************************************************************)
(* Properties                                                              *)
(***************************************************************************)
ProdRoundTripCase ==
    /\ last.op = "extract"
    /\ origin.kind = "embed"
    /\ origin.flipped = 0
    /\ engine = origin.password

\* C1: protected round trip.  Whenever extract has run, under the password of
\* the embedding, on the file that embed wrote for a payload p (any p that embed
\* accepted, the empty one included), it has returned exactly p.
C1_ProtectedRoundTrip ==
    ProdRoundTripCase => (last.status = "ok" /\ last.data = origin.data)

\* C1, for the payloads of one byte or more (the part of C1 the code keeps)
C1_NonEmptyRoundTrip ==
    (ProdRoundTripCase /\ Len(origin.data) > 0)
        => (last.status = "ok" /\ last.data = origin.data)

LiteRoundTripCase ==
    /\ liteLast.op = "extract"
    /\ liteOrigin.kind = "embed"
    /\ liteOrigin.flipped = 0

\* C2: plain round trip.  Whenever StegoLite.extract has run on the file that
\* StegoLite.embed wrote for a payload p, it has returned exactly p (the same
\* bytes, the same length).
C2_PlainRoundTrip ==
    LiteRoundTripCase =>
        /\ liteLast.status = "ok"
        /\ liteLast.data = liteOrigin.data
        /\ Len(liteLast.data) = Len(liteOrigin.data)

C2_Witness ==
    /\ LiteRoundTripCase
    /\ Len(liteOrigin.data) = MaxCap
    /\ liteOrigin.data[1] = 167
    /\ liteLast.data = liteOrigin.data

EmojiRoundTripCase ==
    /\ emojiLast.op = "extract"
    /\ emojiOrigin.kind = "embed"
    /\ emojiOrigin.corrupted = 0

\* C3: text round trip.  Whenever StegoEmoji.extract has run on the text that
\* embed made of a byte string p behind a single-code-point anchor, it has
\* returned exactly p.
C3_TextRoundTrip ==
    EmojiRoundTripCase =>
        (emojiLast.status = "ok" /\ emojiLast.data = emojiOrigin.data)

C3_Witness ==
    /\ EmojiRoundTripCase
    /\ Len(emojiOrigin.data) = MaxCap
    /\ emojiOrigin.data[1] = 16
    /\ emojiOrigin.anchor = <<65024>>
    /\ emojiLast.data = emojiOrigin.data

\* the bytes the LSBs of the first 8 * n samples of an image spell
CarriedBytes(image, n) == bytes_from_bits(extract_bits(image, 8 * n))

\* the file carries, right behind a 9-byte header, the salt, the nonce and the
\* ciphertext||tag of the sealing s, and nothing of the frame is missing
Carries(image, s) ==
    LET body == s.key.salt \o s.nonce \o s.ct
    IN  /\ 8 * (HEADER_SIZE + Len(body)) <= ImageSize(image)
        /\ PySliceFrom(CarriedBytes(image, HEADER_SIZE + Len(body)), HEADER_SIZE) = body

\* C4: protected extract returns bytes only when the body it read from the
\* carrier is a ciphertext that AES-GCM accepts under the key derived from the
\* engine's password and the salt in the carrier, and then it returns the
\* plaintext of that ciphertext; every other call ends in ValidationError or
\* SecurityError and returns nothing.
C4_AuthenticatedOnly ==
    last.op = "extract" =>
        IF last.returned
        THEN /\ last.status = "ok"
             /\ \E s \in sealed :
                    /\ s.key.password = engine
                    /\ Carries(stego, s)
                    /\ last.data = AesGcmPlain(s.key, s.nonce, s.ct)
        ELSE /\ last.status \in {"ValidationError", "SecurityError"}
             /\ last.data = NoData

C4_Witness ==
    /\ last.op = "extract"
    /\ last.returned
    /\ Len(last.data) = MaxCap
    /\ last.opens = 1

\* C5: wrong password.  Whenever extract has run under a password other than
\* the one the file was embedded under, it has failed with SecurityError and
\* returned nothing.
C5_WrongPassword ==
    (/\ last.op = "extract"
     /\ origin.kind = "embed"
     /\ engine # origin.password)
        => (last.status = "SecurityError" /\ ~last.returned)

\* C5, for the payloads of one byte or more
C5_NonEmptyWrongPassword ==
    (/\ last.op = "extract"
     /\ origin.kind = "embed"
     /\ Len(origin.data) > 0
     /\ engine # origin.password)
        => (last.status = "SecurityError" /\ ~last.returned)

\* C6: tamper detection.  Whenever extract has run on a file written by embed
\* in which the LSB of one body sample (salt, nonce, ciphertext or tag) was
\* flipped, it has failed with SecurityError; after a flip of any
\* frame-carrying LSB it has failed with ValidationError or SecurityError.
C6_TamperDetected ==
    (/\ last.op = "extract"
     /\ origin.kind = "embed"
     /\ origin.flipped > 0)
        => /\ ~last.returned
           /\ last.status \in {"ValidationError", "SecurityError"}
           /\ origin.flipped > HEADER_SIZE * 8 => last.status = "SecurityError"

\* C6, for the payloads of one byte or more
C6_NonEmptyTamperDetected ==
    (/\ last.op = "extract"
     /\ origin.kind = "embed"
     /\ Len(origin.data) > 0
     /\ origin.flipped > 0)
        => /\ ~last.returned
           /\ last.status \in {"ValidationError", "SecurityError"}
           /\ origin.flipped > HEADER_SIZE * 8 => last.status = "SecurityError"

\* C7: capacity boundary.  For a carrier of capacity >= 0, an embed of exactly
\* capacity bytes has succeeded and written the output file, and an embed of
\* capacity + 1 bytes has failed with ValidationError (protected) or
\* ValueError (plain) and written nothing.
C7_CapacityBoundary ==
    /\ (last.op = "embed" /\ ProdCapacity(carrier) >= 0) =>
          /\ Len(last.arg) = ProdCapacity(carrier)
                => (last.status = "ok" /\ stego # NoFile)
          /\ Len(last.arg) = ProdCapacity(carrier) + 1
                => (last.status = "ValidationError" /\ stego = NoFile)
    /\ (liteLast.op = "embed" /\ LiteCapacity(liteCarrier) >= 0) =>
          /\ Len(liteLast.arg) = LiteCapacity(liteCarrier)
                => (liteLast.status = "ok" /\ liteStego # NoFile)
          /\ Len(liteLast.arg) = LiteCapacity(liteCarrier) + 1
                => (liteLast.status = "ValueError" /\ liteStego = NoFile)

C7_Witness ==
    /\ last.op = "embed"
    /\ ProdCapacity(carrier) = MaxCap
    /\ Len(last.arg) = ProdCapacity(carrier)
    /\ last.status = "ok"

\* the sample count of an image: every channel of every pixel
TotalSamples(image) == image.width * image.height * 3

\* C8: the capacity query returns floor(total_samples / 8) - overhead, the
\* overhead being 4 in plain mode and header + salt + nonce + tag in protected
\* mode; for a 100 x 100 carrier of 3 channels the plain capacity is 3746.
C8_CapacityFormula ==
    /\ last.op = "get_capacity" =>
          last.data = <<(TotalSamples(carrier) \div 8) - ProdOverhead>>
    /\ liteLast.op = "get_capacity" =>
          /\ liteLast.data = <<(TotalSamples(liteCarrier) \div 8) - LENGTH_BYTES>>
          /\ LiteCapacity(Image(100, 100, 0)) = 3746

\* C8, with the divisor of the code: floor(total_samples / 24) - overhead
C8_CapacityOfTheCode ==
    /\ last.op = "get_capacity" =>
          last.data = <<(TotalSamples(carrier) \div 24) - ProdOverhead>>
    /\ liteLast.op = "get_capacity" =>
          liteLast.data = <<(TotalSamples(liteCarrier) \div 24) - LENGTH_BYTES>>

HeaderOutOfBounds(h, image) ==
    \/ h.salt_len = 0  \/ h.salt_len > 64
    \/ h.nonce_len = 0 \/ h.nonce_len > 32
    \/ h.data_len > ProdCapacity(image)

\* C9: header bounds.  Whenever extract has run on a file whose header states
\* salt_len = 0 or > 64, nonce_len = 0 or > 32, or data_len above the capacity
\* of the file, it has failed with ValidationError, returned nothing, derived
\* no key, and asked for no sample beyond the end of the file.
C9_HeaderBounds ==
    (/\ last.op = "extract"
     /\ origin.kind = "forged"
     /\ HeaderOutOfBounds(origin.header, stego))
        => /\ last.status = "ValidationError"
           /\ ~last.returned
           /\ last.kdf = 0 /\ last.opens = 0
           /\ last.reads <= ImageSize(stego)

C9_Witness ==
    /\ last.op = "extract"
    /\ origin.kind = "forged"
    /\ origin.header.version = FORMAT_VERSION
    /\ origin.header.nonce_len = 200
    /\ origin.header.salt_len = SALT_SIZE
    /\ origin.header.data_len = 1
    /\ ProdCapacity(stego) >= 1
    /\ last.status = "ValidationError"

\* C10: a password of fewer than 12 characters is rejected with
\* ValidationError by the constructor, which derives no key, draws no random
\* byte and reads no carrier; so no engine ever holds such a password and no
\* key is ever derived from one.  A password of 12 or more characters is
\* accepted.
C10_PasswordLength ==
    /\ engine # NoEngine => Len(engine) >= 12
    /\ \A s \in sealed : Len(s.key.password) >= 12
    /\ last.op = "init" =>
          /\ last.kdf = 0 /\ last.rand = 0 /\ last.reads = 0
          /\ Len(last.arg) < 12 => (last.status = "ValidationError" /\ engine # last.arg)
          /\ Len(last.arg) >= 12 => (last.status = "ok" /\ engine = last.arg)

C10_Witness ==
    /\ last.op = "init"
    /\ Len(last.arg) = 11
    /\ last.status = "ValidationError"
    /\ stego # NoFile

\* x & 0xFE
ClearLsb(x) == 2 * (x \div 2)

\* `modified` is `original` with the LSBs of its first Len(bits) samples
\* replaced by bits and nothing else changed
LsbWritten(original, modified, bits) ==
    /\ Len(modified.samples) = Len(original.samples)
    /\ \A i \in 1..Len(original.samples) :
          IF i <= Len(bits)
          THEN /\ modified.samples[i] = ClearLsb(original.samples[i]) + bits[i]
               /\ modified.samples[i] \div 2 = original.samples[i] \div 2
          ELSE modified.samples[i] = original.samples[i]

\* the bytes embed serialises for an embedding o
ProdFrame(o) ==
    LET key == derive_key(o.password, o.salt)
    IN  PackHeader(FORMAT_VERSION, Len(o.data), Len(o.salt), Len(o.nonce))
            \o o.salt \o o.nonce \o AesGcmEncrypt(key, o.nonce, o.data)

LiteFrame(o) == BigEndian(Len(o.data), LENGTH_BYTES) \o o.data

ProdWritten == stego # NoFile /\ origin.kind = "embed" /\ origin.flipped = 0

LiteWritten == liteStego # NoFile /\ liteOrigin.kind = "embed" /\ liteOrigin.flipped = 0

\* C11: LSB-only write.  In the image embed has written through _embed_bits
\* for a bit sequence of length n, every sample i < n is (original[i] & 0xFE)
\* | bits[i], its bits 1..7 being those of the original, and every sample at
\* i >= n is the original sample; in both engines.
C11_LsbOnlyWrite ==
    /\ ProdWritten => LsbWritten(carrier, stego, bits_from_bytes(ProdFrame(origin)))
    /\ LiteWritten => LsbWritten(liteCarrier, liteStego,
                                 bits_from_bytes(LiteFrame(liteOrigin)))

C11_Witness ==
    /\ ProdWritten
    /\ last.op = "embed"
    /\ Len(origin.data) = MaxCap
    /\ ImageSize(carrier) > FrameBits(origin.data)
    /\ \E i \in 1..FrameBits(origin.data) :
          /\ carrier.samples[i] % 2 = 1
          /\ stego.samples[i] = carrier.samples[i] - 1

C14_FreshSaltAndNonce ==
    (last.op = "embed" /\ last.status = "ok") =>
        /\ last.rand = SALT_SIZE + NONCE_SIZE
        /\ last.kdf = 1
        /\ Len(origin.salt) = 16 /\ Len(origin.nonce) = 12
        /\ \E s \in sealed :
              /\ s.key = [password |-> engine, salt |-> origin.salt]
              /\ s.nonce = origin.nonce
              /\ Carries(stego, s)
              /\ AesGcmPlain(s.key, s.nonce, s.ct) = origin.data

C14_Witness ==
    /\ last.op = "embed" /\ last.status = "ok"
    /\ Cardinality(sealed) = MaxEmbeds
    /\ \E s \in sealed : s.key.salt # origin.salt /\ s.nonce # origin.nonce
    /\ \E s \in sealed : s.key.salt = origin.salt /\ s.nonce = origin.nonce

\* the 256 code points U+FE00..U+FE0F and U+E0100..U+E01EF
MappedCodePoints == (65024..65039) \cup (917760..917999)

\* C15: variation-selector mapping.  Bytes 0..15 map to U+FE00 + b and bytes
\* 16..255 to U+E0100 + (b - 16); the inverse map undoes the map on every
\* byte and the map undoes the inverse on every one of the 256 code points;
\* the inverse rejects the code points outside the two ranges; and an extract
\* of a text with such a code point behind the anchor has raised ValueError.
C15_SelectorMapping ==
    /\ emojiLast.op = "embed" =>
          /\ \A b \in 0..255 :
                /\ byte_to_variation_selector(b)
                      = (IF b <= 15 THEN 65024 + b ELSE 917760 + (b - 16))
                /\ byte_to_variation_selector(b) \in MappedCodePoints
                /\ variation_selector_to_byte(byte_to_variation_selector(b)) = b
          /\ \A cp \in MappedCodePoints :
                /\ variation_selector_to_byte(cp) \in 0..255
                /\ byte_to_variation_selector(variation_selector_to_byte(cp)) = cp
          /\ \A cp \in ForeignCodePoints \cup {0, 65, 127775, 1114111} :
                variation_selector_to_byte(cp) = 0 - 1
          /\ emojiOrigin.corrupted = 0 =>
                \A i \in 2..Len(text) : text[i] \in MappedCodePoints
    /\ (/\ emojiLast.op = "extract"
        /\ \E i \in 2..Len(text) : text[i] \notin MappedCodePoints)
          => (emojiLast.status = "ValueError" /\ ~emojiLast.returned)

C15_Witness ==
    /\ emojiLast.op = "extract"
    /\ emojiOrigin.kind = "embed"
    /\ emojiOrigin.corrupted = 5 + MaxCap
    /\ text[5 + MaxCap] = 918000
    /\ emojiLast.status = "ValueError"

\* the code point the text format assigns to a byte
CodePointOf(b) == IF b <= 15 THEN 65024 + b ELSE 917760 + (b - 16)

\* byte i (1..4) of the big-endian 4-byte form of n
LengthByte(n, i) == (n \div Pow2(8 * (4 - i))) % 256

\* C16: text frame size.  The text embed made of an n-byte payload has exactly
\* 1 + 4 + n code points: the anchor, the four bytes of n (big-endian) as
\* mapped code points, the n payload bytes as mapped code points; that count
\* is what get_size_estimate(n) returns; for the empty payload it is 5 and
\* extract returns the empty payload.
C16_TextFrameSize ==
    (emojiOrigin.kind = "embed" /\ emojiOrigin.corrupted = 0) =>
        LET n == Len(emojiOrigin.data) IN
        /\ Len(text) = 1 + 4 + n
        /\ text[1] = emojiOrigin.anchor[1]
        /\ \A i \in 1..4 : text[1 + i] = CodePointOf(LengthByte(n, i))
        /\ \A i \in 1..n : text[5 + i] = CodePointOf(emojiOrigin.data[i])
        /\ \A i \in 2..Len(text) : text[i] \in MappedCodePoints
        /\ (emojiLast.op = "get_size_estimate" /\ emojiLast.arg = <<n>>)
              => emojiLast.data = <<Len(text)>>
        /\ (n = 0 /\ emojiLast.op = "extract")
              => (Len(text) = 5 /\ emojiLast.status = "ok" /\ emojiLast.data = <<>>)

C16_Witness ==
    /\ emojiOrigin.kind = "embed" /\ emojiOrigin.corrupted = 0
    /\ emojiLast.op = "get_size_estimate"
    /\ emojiLast.arg = <<Len(emojiOrigin.data)>>
    /\ Len(emojiOrigin.data) = MaxCap
    /\ Len(text) = 5 + MaxCap

\* C17: anchor validation.  A construction of the text engine with a string of
\* no code point, or of two or more, has been rejected with ValueError and has
\* made no engine; one with a single code point has made an engine with that
\* anchor, and one with no argument an engine with the default anchor.
C17_AnchorValidation ==
    emojiLast.op = "init" =>
        IF emojiLast.arg = NoneArg
        THEN emojiLast.status = "ok" /\ base_emoji = BASE_EMOJI
        ELSE IF Len(emojiLast.arg) = 1
        THEN emojiLast.status = "ok" /\ base_emoji = emojiLast.arg
        ELSE emojiLast.status = "ValueError" /\ base_emoji # emojiLast.arg

\* C17, the empty string left aside
C17_NonEmptyAnchorValidation ==
    (emojiLast.op = "init" /\ emojiLast.arg # <<>>) =>
        IF emojiLast.arg = NoneArg
        THEN emojiLast.status = "ok" /\ base_emoji = BASE_EMOJI
        ELSE IF Len(emojiLast.arg) = 1
        THEN emojiLast.status = "ok" /\ base_emoji = emojiLast.arg
        ELSE emojiLast.status = "ValueError" /\ base_emoji # emojiLast.arg

\* C18: a JPEG carrier in plain mode.  Whenever StegoLite.embed has run on a
\* carrier file that is a JPEG, it has raised ValueError and written nothing,
\* whether or not the payload fits the capacity.
C18_JpegRejected ==
    (liteLast.op = "embed" /\ liteCarrier.format = "JPEG") =>
        (liteLast.status = "ValueError" /\ liteStego = NoFile)

\* extract_data has failed on a wrong password: the image was embedded under
\* another password and the decryption inside extract was refused
WrongPasswordCase ==
    /\ uiLast.op = "extract_data"
    /\ uiLast.mode = "production"
    /\ uiLast.status = "error"
    /\ uiLast.error = "SecurityError"
    /\ origin.kind = "embed"
    /\ uiLast.password # origin.password

\* C19: when extract_data has failed because the password is wrong, no file
\* exists at the chosen output path.
C19_NoOutputOnWrongPassword ==
    WrongPasswordCase => ~outputFile.exists

\* C19, for the content of the file: nothing is written to it
C19_NothingWrittenOnWrongPassword ==
    WrongPasswordCase => outputFile.content = <<>>

ExtractStages ==
    <<"HeaderRead", "VersionChecked", "LengthsValidated",
      "BodyRead", "KeyDerived", "Opened">>

\* the header the first 72 LSBs of a file spell
HeaderIn(image) == UnpackHeader(CarriedBytes(image, HEADER_SIZE))

LengthsOutOfRange(h, image) ==
    \/ h.salt_len = 0  \/ h.salt_len > 64
    \/ h.nonce_len = 0 \/ h.nonce_len > 32
    \/ h.data_len = 0  \/ h.data_len > ProdCapacity(image)

\* C20: the linear path of extract.  The stages an extract went through are a
\* prefix of header read, version check, length validation, body read, key
\* derivation, AEAD open, each at most once.  On an unsupported version it
\* stopped at the version check; on a zero or out-of-range salt_len, nonce_len
\* or data_len it stopped at the length validation with only the 72 header
\* bits read, no key derived and no decryption attempted; otherwise it read
\* the body, derived one key and attempted exactly one decryption.
C20_ExtractLinearPath ==
    last.op = "extract" =>
        /\ last.path = SubSeq(ExtractStages, 1, Len(last.path))
        /\ last.opens <= 1 /\ last.kdf <= 1
        /\ IF ImageSize(stego) < HEADER_SIZE * 8
           THEN last.path = <<"HeaderRead">> /\ last.kdf = 0 /\ last.opens = 0
           ELSE LET h == HeaderIn(stego) IN
                IF h.version # FORMAT_VERSION
                THEN /\ last.path = SubSeq(ExtractStages, 1, 2)
                     /\ last.status = "ValidationError"
                     /\ last.reads = HEADER_SIZE * 8
                     /\ last.kdf = 0 /\ last.opens = 0
                ELSE IF LengthsOutOfRange(h, stego)
                THEN /\ last.path = SubSeq(ExtractStages, 1, 3)
                     /\ last.status = "ValidationError"
                     /\ last.reads = HEADER_SIZE * 8
                     /\ last.kdf = 0 /\ last.opens = 0
                ELSE /\ last.path = ExtractStages
                     /\ last.reads = 8 * (HEADER_SIZE + h.salt_len + h.nonce_len
                                            + h.data_len + 16)
                     /\ last.kdf = 1 /\ last.opens = 1
                     /\ last.status \in {"ok", "SecurityError"}

C20_Witness ==
    /\ last.op = "extract"
    /\ origin.kind = "forged"
    /\ origin.header.version = FORMAT_VERSION + 1
    /\ origin.header.salt_len = 0
    /\ last.path = <<"HeaderRead", "VersionChecked">>

\* the least significant bit of the sample at position k (index k - 1)
LsbAt(image, k) == image.samples[k] % 2

\* the number the n LSBs from position first on spell, most significant first
RECURSIVE MsbFirstValue(_, _, _)
MsbFirstValue(image, first, n) ==
    IF n = 0 THEN 0
    ELSE 2 * MsbFirstValue(image, first, n - 1) + LsbAt(image, first + n - 1)

\* C21: plain extract.  On a file of 32 samples or more, extract has read the
\* LSBs of samples 0..31 as a big-endian length L; when L exceeds
\* floor(samples / 24) - 4 it has raised ValueError with nothing more read;
\* otherwise it has returned exactly L bytes, byte i being the 8 LSBs of
\* samples 32 + 8i .. 32 + 8i + 7 most significant first, and has asked for
\* 8 (L + 4) samples, all within the file.
C21_PlainExtract ==
    (liteLast.op = "extract" /\ ImageSize(liteStego) >= 32) =>
        LET capacity == (ImageSize(liteStego) \div 24) - 4 IN
        IF \/ LsbAt(liteStego, 1) = 1
           \/ MsbFirstValue(liteStego, 2, 31) > capacity
        THEN /\ liteLast.status = "ValueError"
             /\ ~liteLast.returned
             /\ liteLast.reads = 32
        ELSE LET L == MsbFirstValue(liteStego, 2, 31) IN
             /\ liteLast.status = "ok"
             /\ Len(liteLast.data) = L
             /\ \A i \in 1..L :
                   liteLast.data[i] = MsbFirstValue(liteStego, 32 + 8 * (i - 1) + 1, 8)
             /\ liteLast.reads = 8 * (L + 4)
             /\ liteLast.reads <= ImageSize(liteStego)

C21_Witness ==
    /\ liteLast.op = "extract"
    /\ liteOrigin.kind = "embed"
    /\ liteOrigin.flipped = 32
    /\ Len(liteOrigin.data) = 1
    /\ liteLast.status = "ok"
    /\ liteLast.data = <<>>

\* one LSB of the payload region of a plain file was flipped before the
\* extraction
PayloadFlipCase ==
    /\ liteLast.op = "extract"
    /\ liteOrigin.kind = "embed"
    /\ liteOrigin.flipped > 32
    /\ liteOrigin.flipped <= 32 + 8 * Len(liteOrigin.data)

C23_WireFormat ==
    ProdWritten =>
        LET n      == Len(origin.data)
            total  == 9 + 16 + 12 + n + 16
            frame  == CarriedBytes(stego, total)
            header == <<1, LengthByte(n, 1), LengthByte(n, 2), LengthByte(n, 3),
                        LengthByte(n, 4), 0, 16, 0, 12>>
        IN  /\ 8 * total <= ImageSize(stego)
            /\ Len(frame) = total
            /\ SubSeq(frame, 1, 9) = header
            /\ SubSeq(frame, 10, 25) = origin.salt
            /\ SubSeq(frame, 26, 37) = origin.nonce
            /\ Len(origin.salt) = 16 /\ Len(origin.nonce) = 12
            /\ \E s \in sealed :
                  /\ s.key.salt = origin.salt
                  /\ s.nonce = origin.nonce
                  /\ s.ct = SubSeq(frame, 38, total)
                  /\ Len(s.ct) = n + 16
                  /\ AesGcmPlain(s.key, s.nonce, s.ct) = origin.data

C23_Witness ==
    /\ ProdWritten
    /\ last.op = "embed"
    /\ Len(origin.data) = MaxCap
    /\ CarriedBytes(stego, 9) = <<1, 0, 0, 0, MaxCap, 0, 16, 0, 12>>

\* bit k of a bit array as _bytes_from_bits sees it: zero behind the end
PaddedBit(bits, k) == IF k <= Len(bits) THEN bits[k] ELSE 0

\* C24: BitCodec.  bits_from_bytes has given, for each byte in order, its 8
\* bits most significant first; bytes_from_bits has packed its bits most
\* significant first, zero bits standing in behind the end up to a multiple
\* of 8; bytes_from_bits(bits_from_bytes(d)) is d; 8N bits have given N bytes.
C24_BitCodec ==
    /\ codecLast = "bits_from_bytes" =>
          /\ Len(codecBits) = 8 * Len(codecData)
          /\ \A j \in 1..Len(codecData) : \A t \in 1..8 :
                codecBits[8 * (j - 1) + t] = (codecData[j] \div Pow2(8 - t)) % 2
    /\ codecLast \in {"bytes_from_bits", "bytes_from_cut_bits"} =>
          /\ Len(codecOut) = (Len(codecBits) + 7) \div 8
          /\ \A j \in 1..Len(codecOut) :
                codecOut[j] = 128 * PaddedBit(codecBits, 8 * j - 7)
                            +  64 * PaddedBit(codecBits, 8 * j - 6)
                            +  32 * PaddedBit(codecBits, 8 * j - 5)
                            +  16 * PaddedBit(codecBits, 8 * j - 4)
                            +   8 * PaddedBit(codecBits, 8 * j - 3)
                            +   4 * PaddedBit(codecBits, 8 * j - 2)
                            +   2 * PaddedBit(codecBits, 8 * j - 1)
                            +       PaddedBit(codecBits, 8 * j)
          /\ Len(codecBits) % 8 = 0 => 8 * Len(codecOut) = Len(codecBits)
    /\ codecLast = "bytes_from_bits" => codecOut = codecData

C24_Witness ==
    /\ codecLast = "bytes_from_cut_bits"
    /\ Len(codecData) = MaxCap
    /\ codecData[MaxCap] = 167
    /\ Len(codecBits) = 8 * MaxCap - 5
    /\ codecOut[MaxCap] = 160

\* the bytes that the code points behind the first one of a text stand for
\* (for a text that holds mapped code points only)
DecodedBytes(t) ==
    [i \in 1..(Len(t) - 1) |->
        IF t[i + 1] <= 65039 THEN t[i + 1] - 65024 ELSE t[i + 1] - 917760 + 16]

\* the length that the first four decoded bytes declare
DeclaredLength(b) == 16777216 * b[1] + 65536 * b[2] + 256 * b[3] + b[4]

\* C25: text extract fails closed.  Whenever extract has run on a text of
\* mapped code points behind the anchor, it has raised ValueError if these
\* stand for fewer than 4 bytes or if the declared big-endian length is more
\* than the number of bytes behind the prefix, and otherwise it has returned
\* exactly the declared number of bytes, those right behind the prefix.
C25_TextFailsClosed ==
    (/\ emojiLast.op = "extract"
     /\ \A i \in 2..Len(text) : text[i] \in MappedCodePoints) =>
        LET all_data == DecodedBytes(text) IN
        IF Len(text) = 0 \/ Len(all_data) < 4
        THEN emojiLast.status = "ValueError" /\ ~emojiLast.returned
        ELSE IF DeclaredLength(all_data) > Len(all_data) - 4
        THEN emojiLast.status = "ValueError" /\ ~emojiLast.returned
        ELSE /\ emojiLast.status = "ok"
             /\ Len(emojiLast.data) = DeclaredLength(all_data)
             /\ \A i \in 1..Len(emojiLast.data) : emojiLast.data[i] = all_data[4 + i]

\* a text cut behind its prefix: the declared length is more than what is left
C25_Witness ==
    /\ emojiLast.op = "extract"
    /\ emojiOrigin.kind = "embed"
    /\ Len(emojiOrigin.data) = MaxCap
    /\ emojiOrigin.corrupted = 0 - 1
    /\ Len(text) = 4 + MaxCap
    /\ emojiLast.status = "ValueError"

\* a text whose declared length was lowered: extract returns that many bytes
C25_ShorterDeclared ==
    /\ emojiLast.op = "extract"
    /\ emojiOrigin.corrupted = 0 - 2
    /\ Len(emojiOrigin.data) = MaxCap
    /\ emojiLast.status = "ok"
    /\ Len(emojiLast.data) = MaxCap - 1

\* a call went through the stage
Passed(out, stage) == \E i \in 1..Len(out.path) : out.path[i] = stage

\* C26: bounds of the pixel transport.  An embed whose payload passed the
\* capacity check has written 8 x (frame bytes) LSBs, no more than the carrier
\* has samples, and an extract whose header passed the validation (salt_len in
\* 1..64, nonce_len in 1..32, data_len in 1..capacity; in plain mode length <=
\* capacity) has read 8 x (frame bytes) LSBs, no more than the file has
\* samples: no write and no read was short.
C26_TransportBounds ==
    /\ (last.op = "embed" /\ Passed(last, "SaltNonceGenerated")) =>
          /\ 8 * (9 + 16 + 12 + Len(last.arg) + 16) <= TotalSamples(carrier)
          /\ last.status = "ok"
          /\ stego # NoFile
    /\ (last.op = "extract" /\ Passed(last, "BodyRead")) =>
          LET h == HeaderIn(stego) IN
          /\ h.salt_len \in 1..64 /\ h.nonce_len \in 1..32 /\ h.data_len >= 1
          /\ last.reads = 8 * (9 + h.salt_len + h.nonce_len + h.data_len + 16)
          /\ last.reads <= TotalSamples(stego)
          /\ Len(extract_bits(stego, last.reads)) = last.reads
    /\ (liteLast.op = "embed"
        /\ Len(liteLast.arg) <= (TotalSamples(liteCarrier) \div 24) - 4) =>
          /\ 8 * (4 + Len(liteLast.arg)) <= TotalSamples(liteCarrier)
          /\ liteLast.status = "ok"
          /\ liteStego # NoFile
    /\ (liteLast.op = "extract" /\ liteLast.status = "ok") =>
          /\ liteLast.reads = 8 * (4 + Len(liteLast.data))
          /\ liteLast.reads <= TotalSamples(liteStego)
          /\ Len(extract_bits(liteStego, liteLast.reads)) = liteLast.reads

\* the longest frame a header can state: salt_len 64, nonce_len 32
C26_Witness ==
    /\ last.op = "extract" /\ Passed(last, "BodyRead")
    /\ origin.kind = "forged"
    /\ origin.header.salt_len = 64 /\ origin.header.nonce_len = 32
    /\ last.reads = 8 * (9 + 64 + 32 + 1 + 16)
    /\ ProdCapacity(stego) = 1

\* a payload that fills the carrier to its capacity has been written
C26_FullCarrier ==
    /\ last.op = "embed" /\ last.status = "ok"
    /\ Len(last.arg) = MaxCap
    /\ ProdCapacity(carrier) = MaxCap

\* C28: a carrier of negative capacity (fewer samples than 24 x the overhead
\* of the mode, 53 protected and 4 plain).  Every embed into it, of the empty
\* payload too, has failed and has written no file; every extract from it,
\* whatever its samples are, has failed and has returned no bytes.
C28_NegativeCapacity ==
    /\ (last.op = "embed" /\ TotalSamples(carrier) < 24 * 53) =>
          (~last.returned /\ last.status = "ValidationError" /\ stego = NoFile)
    /\ (last.op = "extract" /\ TotalSamples(stego) < 24 * 53) =>
          (~last.returned /\ last.data = NoData)
    /\ (liteLast.op = "embed" /\ TotalSamples(liteCarrier) < 24 * 4) =>
          (~liteLast.returned /\ liteStego = NoFile)
    /\ (liteLast.op = "extract" /\ TotalSamples(liteStego) < 24 * 4) =>
          (~liteLast.returned /\ liteLast.data = NoData)

\* the empty payload is refused by a protected carrier one byte too small
C28_Witness ==
    /\ last.op = "embed" /\ last.arg = <<>>
    /\ TotalSamples(carrier) = 24 * 53 - 24
    /\ last.status = "ValidationError"

\* plain extract from a carrier of capacity -1 whose LSBs declare the length 0
C28_PlainZeroLength ==
    /\ liteLast.op = "extract"
    /\ liteStego = BlankImage(LENGTH_BYTES - 1, 8)
    /\ ~liteLast.returned

\* protected extract from a carrier of capacity -1 with a well-formed header
C28_ProtectedForged ==
    /\ last.op = "extract"
    /\ TotalSamples(stego) = 24 * 53 - 24
    /\ origin.kind = "forged"
    /\ origin.header.data_len = 1 /\ origin.header.salt_len = 16
    /\ origin.header.nonce_len = 12 /\ origin.header.version = 1
    /\ ~last.returned

\* C27: the image create_carrier_image made for a data size D > 0 and a margin
\* factor >= 1.0 is square, its side is a multiple of 8, and its capacity, as
\* the engine of the mode reports it, is at least D.
C27_CarrierHoldsData ==
    (created # NoCreated /\ created.data_size > 0 /\ created.margin4 >= 4) =>
        /\ created.image.width = created.image.height
        /\ created.image.width % 8 = 0
        /\ UiCapacity(created.mode, created.image) >= created.data_size

\* C27, what the code does: the image is square with a side that is a
\* multiple of 8 and has one sample for every bit of (data size + overhead)
\* x margin, the overhead being 85 in production mode and 0 in lite mode
C27_CarrierOfTheCode ==
    (created # NoCreated /\ created.data_size > 0 /\ created.margin4 >= 4) =>
        /\ created.image.width = created.image.height
        /\ created.image.width % 8 = 0
        /\ created.image.format = "PNG"
        /\ 4 * TotalSamples(created.image)
              >= 8 * created.margin4
                     * (created.data_size + (IF created.mode = "production" THEN 85 ELSE 0))

\* C29: the session invariant.  switch_mode has left no engine and one of the
\* two modes; embed_data, extract_data, initialize_stego and
\* create_carrier_image, when they return, have left an engine of the kind of
\* the mode; at all times the engine is None, or a StegoProduction in
\* production mode, or a StegoLite in lite mode.
C29_EngineMatchesMode ==
    /\ mode \in {"production", "lite"}
    /\ selfStego = NoStego \/ selfStego.kind = mode
    /\ uiLast.op = "switch_mode" => (selfStego = NoStego /\ mode = uiLast.mode)
    /\ (/\ uiLast.op \in {"embed_data", "extract_data", "initialize_stego",
                          "create_carrier_image"}
        /\ uiLast.status # "raised")
          => (selfStego # NoStego /\ selfStego.kind = mode)
    /\ selfStego.kind = "production" => PasswordAccepted(selfStego.password)

\* a lite engine in a session that embedded in production mode before
C29_Witness ==
    /\ mode = "lite"
    /\ selfStego.kind = "lite"
    /\ origin.kind = "embed"
    /\ uiLast.op = "extract_data"

\* cleanup_temp_files has just run: called directly, or by run() returning
JustCleaned == uiLast.op = "cleanup_temp_files" \/ running = "returned"

\* C30: after cleanup_temp_files the tracked list is empty and none of the
\* files that were tracked exists; run() cleans up on every exit path, so no
\* tracked temporary file remains when it has returned.
C30_CleanupRemovesAll ==
    /\ JustCleaned =>
          (cleaned.done /\ temp_files = <<>> /\ cleaned.tracked \cap tempOnDisk = {})
    /\ running = "returned" => cleaned.done

\* C30, amended: after cleanup_temp_files the tracked list is empty and the
\* tracked files that still exist are exactly those whose unlink raised (a
\* warning is printed for each); run() cleans up in this way on every exit
\* path: the menu's exit, KeyboardInterrupt, an unexpected error.
C30_CleanupBestEffort ==
    /\ JustCleaned =>
          /\ cleaned.done
          /\ temp_files = <<>>
          /\ cleaned.tracked \cap tempOnDisk = cleaned.failed
    /\ running = "returned" => cleaned.done

\* run() left by Ctrl-C with a tracked file on disk, which was deleted
C30_Witness ==
    /\ running = "returned"
    /\ uiLast.op = "run" /\ uiLast.error = "KeyboardInterrupt"
    /\ "converted" \in cleaned.tracked
    /\ cleaned.failed = {}
    /\ tempOnDisk = {}

\* run() left by the ValidationError of embed_data, tracked files deleted
C30_ErrorPath ==
    /\ running = "returned"
    /\ uiLast.op = "embed_data" /\ uiLast.status = "raised"
    /\ "converted" \in cleaned.tracked
    /\ tempOnDisk = {}

====
